---------------------------- MODULE Spec2Model ----------------------------
(***************************************************************************)
(* Friends character network: the script parser (DataProcessing.py) and    *)
(* the graph model (GraphConstruct.py).                                    *)
(*                                                                         *)
(* Script lines, speaker prefixes and character names are strings; the     *)
(* regular expressions and the str methods the parser uses are operators   *)
(* over the characters of those strings.                                   *)
(***************************************************************************)
EXTENDS Integers, Sequences, FiniteSets, TLC

VARIABLES
    text,        \* the lines of the script file (text.splitlines())
    ps,          \* parse_episode_file: its locals and its position
    pw,          \* parse_episode_file_with_wordcount: its locals and its position
    nodes,       \* Graph.nodes: name -> Node, in insertion order
    raised,      \* a Graph method raised (the unpacking of line 179)
    calls,       \* the number of mutating Graph calls made so far
    prev_call,   \* the Graph call made last: add_edge or a popularity call
    path_result, \* what the last shortest_path call returned
    top_result,  \* what the last top_k_by_popularity call returned
    json,        \* the tables of the JSON files the session loads
    season_graphs, \* seasons -> the graph build_graph_by_seasons returned
    cli          \* FriendsCLI: full_graph, graph and current_seasons

parseVars == << text, ps, pw >>

sessionVars == << json, season_graphs, cli >>

graphVars == << nodes, raised, calls, prev_call, path_result, top_result,
                json, season_graphs, cli >>

vars == << text, ps, pw, nodes, raised, calls, prev_call, path_result, top_result,
           json, season_graphs, cli >>

(***************************************************************************)
(* Bounds of the model.                                                    *)
(***************************************************************************)
MaxLines == 3

\* The number of mutating Graph calls of one run.
MaxCalls == 3

\* The number of graph-building calls before a path is asked.
MaxPathCalls == 2

(***************************************************************************)
(* The lookup tables of DataProcessing.py.                                 *)
(***************************************************************************)
ACTION_WORDS ==
    { "says", "shakes", "walks", "laughs", "enters", "exits",
      "shouts", "yells", "cries", "looks", "stares", "turns",
      "moves", "explains", "asks", "replies", "continues",
      "tells", "answers", "runs", "steps", "smiles", "nods",
      "starts", "storms", "coming", "starting", "raises",
      "have", "screaming", "to", "cutting", "at", "with",
      "opens", "looking", "has", "gets" }

GROUP_SPEAKER_PHRASES ==
    { "all", "everyone", "guys", "both",
      "the guys", "girls", "girl", "boys", "boy",
      "guy", "women", "woman", "men", "man" }

GROUP_INDICATORS ==
    { "girls", "girl", "boys", "boy", "guys",
      "guy", "crowd", "people", "kids", "kid", "friend",
      "friends", "family", "parents", "neighbors",
      "roommates", "siblings", "child", "children",
      "women", "men", "directed", "extra", "everybody",
      "everyone", "together", "written", "produced",
      "transcribed", "hosted" }

GENERIC_ROLES ==
    { "customer", "customers", "receptionist",
      "receptionists", "nurse", "waiter", "waiters",
      "waitress", "teacher", "clerk", "fireman",
      "detector", "tag", "boss", "tourist", "gambler",
      "dealer", "attendant", "croupier", "guard",
      "lurker", "director", "cashier", "message",
      "critic", "interviewer", "doctor", "tv", "story",
      "writer", "teleplay", "note" }

\* NAME_MAP as a list of (key, value) entries.
NAME_MAP ==
    << <<"Chan", "Chandler">>, <<"CHAN", "Chandler">>,
       <<"Rach", "Rachel">>,   <<"RACH", "Rachel">>,
       <<"Rahcel", "Rachel">>,
       <<"Mnca", "Monica">>,   <<"MNCA", "Monica">>,
       <<"Phoe", "Phoebe">>,   <<"PHOE", "Phoebe">> >>

MAIN_CHARS ==
    << "Monica", "Rachel", "Phoebe", "Ross", "Chandler",
       "Joey", "Ursula", "Carol", "Susan", "Janice" >>

(***************************************************************************)
(* Characters and the str methods.                                         *)
(***************************************************************************)
UpperLetters == "ABCDEFGHIJKLMNOPQRSTUVWXYZ"
LowerLetters == "abcdefghijklmnopqrstuvwxyz"

Char(s, i) == SubSeq(s, i, i)

UpperSet == { Char(UpperLetters, i) : i \in 1..Len(UpperLetters) }
LowerSet == { Char(LowerLetters, i) : i \in 1..Len(LowerLetters) }
AlphaSet == UpperSet \cup LowerSet

\* The white space that can occur inside one line of splitlines().
WhiteSpace == { " ", "\t" }

LowerOf == [ c \in UpperSet |->
               Char(LowerLetters, CHOOSE i \in 1..Len(UpperLetters) : Char(UpperLetters, i) = c) ]
UpperOf == [ c \in LowerSet |->
               Char(UpperLetters, CHOOSE i \in 1..Len(LowerLetters) : Char(LowerLetters, i) = c) ]

lower_char(c) == IF c \in UpperSet THEN LowerOf[c] ELSE c
upper_char(c) == IF c \in LowerSet THEN UpperOf[c] ELSE c

RECURSIVE lower(_)
lower(s) == IF s = "" THEN "" ELSE lower_char(Head(s)) \o lower(Tail(s))

RECURSIVE upper(_)
upper(s) == IF s = "" THEN "" ELSE upper_char(Head(s)) \o upper(Tail(s))

\* str.title(): a letter that follows a letter is lower-cased, any other
\* letter is upper-cased.
RECURSIVE title_from(_, _)
title_from(s, prevCased) ==
    IF s = "" THEN ""
    ELSE LET c == Head(s) IN
         (IF c \in AlphaSet
            THEN (IF prevCased THEN lower_char(c) ELSE upper_char(c))
            ELSE c)
         \o title_from(Tail(s), c \in AlphaSet)

title(s) == title_from(s, FALSE)

RECURSIVE lstrip(_)
lstrip(s) == IF s # "" /\ Head(s) \in WhiteSpace THEN lstrip(Tail(s)) ELSE s

RECURSIVE rstrip(_)
rstrip(s) ==
    IF s # "" /\ Char(s, Len(s)) \in WhiteSpace
      THEN rstrip(SubSeq(s, 1, Len(s) - 1))
      ELSE s

strip(s) == rstrip(lstrip(s))

startswith(s, p) == Len(p) <= Len(s) /\ SubSeq(s, 1, Len(p)) = p

\* `sub in s`
contains(s, sub) ==
    \E i \in 1..(Len(s) - Len(sub) + 1) : SubSeq(s, i, i + Len(sub) - 1) = sub

\* The index of the first occurrence of character c in s at or after i,
\* Len(s) + 1 when there is none.
RECURSIVE find_char(_, _, _)
find_char(s, c, i) ==
    IF i > Len(s) THEN Len(s) + 1
    ELSE IF Char(s, i) = c THEN i
    ELSE find_char(s, c, i + 1)

\* str.split(sep): the pieces between the occurrences of the character sep.
RECURSIVE split_on(_, _)
split_on(s, sep) ==
    LET k == find_char(s, sep, 1) IN
    IF k > Len(s) THEN << s >>
    ELSE << SubSeq(s, 1, k - 1) >> \o split_on(SubSeq(s, k + 1, Len(s)), sep)

\* The first index at or after i that holds no white space.
RECURSIVE skip_ws(_, _)
skip_ws(s, i) ==
    IF i <= Len(s) /\ Char(s, i) \in WhiteSpace THEN skip_ws(s, i + 1) ELSE i

\* The first index at or after i that holds white space, Len(s) + 1 if none.
RECURSIVE skip_word(_, _)
skip_word(s, i) ==
    IF i <= Len(s) /\ Char(s, i) \notin WhiteSpace THEN skip_word(s, i + 1) ELSE i

\* str.split(): the maximal runs of non-white-space characters.
RECURSIVE split_ws_from(_, _)
split_ws_from(s, i) ==
    LET b == skip_ws(s, i) IN
    IF b > Len(s) THEN << >>
    ELSE LET e == skip_word(s, b) IN
         << SubSeq(s, b, e - 1) >> \o split_ws_from(s, e)

split_ws(s) == split_ws_from(s, 1)

\* re.sub(r"'", "", s)
RECURSIVE remove_apostrophes(_)
remove_apostrophes(s) ==
    IF s = "" THEN ""
    ELSE (IF Head(s) = "'" THEN "" ELSE Head(s)) \o remove_apostrophes(Tail(s))

Range(f) == { f[i] : i \in DOMAIN f }


\* The characters a name can hold, in code point order (str comparison).
CodeOrder == "\t '-." \o UpperLetters \o LowerLetters

OrdOf == [ c \in { Char(CodeOrder, i) : i \in 1..Len(CodeOrder) } |->
             CHOOSE i \in 1..Len(CodeOrder) : Char(CodeOrder, i) = c ]

\* a < b for str: the first differing character decides, a proper prefix is less.
RECURSIVE str_less(_, _)
str_less(a, b) ==
    IF b = "" THEN FALSE
    ELSE IF a = "" THEN TRUE
    ELSE IF Head(a) = Head(b) THEN str_less(Tail(a), Tail(b))
    ELSE OrdOf[Head(a)] < OrdOf[Head(b)]

\* sorted(scene)
RECURSIVE sorted(_)
sorted(S) ==
    IF S = {} THEN << >>
    ELSE LET m == CHOOSE x \in S : \A y \in S \ {x} : str_less(x, y)
         IN  << m >> \o sorted(S \ {m})

\* combinations(seq, 2), in the order itertools yields them.
RECURSIVE combinations2(_)
combinations2(seq) ==
    IF Len(seq) < 2 THEN << >>
    ELSE [ k \in 1..(Len(seq) - 1) |-> << seq[1], seq[k + 1] >> ]
         \o combinations2(Tail(seq))

(***************************************************************************)
(* Line classification: the tests at the head of the loop body.            *)
(***************************************************************************)
CreditPrefixes == { "written by", "story by", "teleplay by" }

is_credit_line(line) == \E p \in CreditPrefixes : startswith(lower(line), p)

is_stage_direction(line) == startswith(line, "(")

\* re.match(r"^\[(Scene|Time|Cut|Commercial|Closing)", line)
SceneKeywords == { "Scene", "Time", "Cut", "Commercial", "Closing" }

is_scene_boundary(line) == \E k \in SceneKeywords : startswith(line, "[" \o k)

(***************************************************************************)
(* The speaker patterns.                                                   *)
(***************************************************************************)
\* The class of the speaker patterns with '-' added to it.
NameClassWithHyphen == AlphaSet \cup WhiteSpace \cup { ".", "'", "-" }

\* [a-zA-Z\s.']
NameClass == AlphaSet \cup WhiteSpace \cup { ".", "'" }

\* The last index of the run of NameClass characters that starts at i
\* (i - 1 when s[i] is not one).
RECURSIVE class_run_end(_, _)
class_run_end(s, i) ==
    IF i <= Len(s) /\ Char(s, i) \in NameClass THEN class_run_end(s, i + 1) ELSE i - 1

Max(S) == CHOOSE x \in S : \A y \in S : y <= x

NoMatch == [ matched |-> FALSE, prefix |-> "", content |-> "" ]

\* re.match(r"^([A-Z][a-zA-Z\s.']+)(?=[:(])", line): group 1 is the longest
\* prefix [A-Z][class]+ that a ':' or a '(' follows.
normal_match_scenes(line) ==
    IF line = "" \/ Char(line, 1) \notin UpperSet THEN NoMatch
    ELSE LET ends == { k \in 2..class_run_end(line, 2) :
                         k + 1 <= Len(line) /\ Char(line, k + 1) \in { ":", "(" } }
         IN  IF ends = {} THEN NoMatch
             ELSE [ matched |-> TRUE, prefix |-> SubSeq(line, 1, Max(ends)), content |-> "" ]

\* (?:\s*\([^)]*\))?\s*:\s*(.*)$ matched at index p: 0 when it does not match,
\* otherwise the index where group 2 starts.  The optional group is tried
\* first; when the rest fails after it, the pattern is tried without it.
tail_match(line, p) ==
    LET q == skip_ws(line, p)
        close == find_char(line, ")", q + 1)
        withGroup ==
            IF q <= Len(line) /\ Char(line, q) = "(" /\ close <= Len(line)
              THEN LET t == skip_ws(line, close + 1) IN
                   IF t <= Len(line) /\ Char(line, t) = ":" THEN skip_ws(line, t + 1) ELSE 0
              ELSE 0
        without ==
            IF q <= Len(line) /\ Char(line, q) = ":" THEN skip_ws(line, q + 1) ELSE 0
    IN  IF withGroup # 0 THEN withGroup ELSE without

\* re.match(r"^([A-Z][a-zA-Z\s.']+)(?:\s*\([^)]*\))?\s*:\s*(.*)$", line)
normal_match_wordcount(line) ==
    IF line = "" \/ Char(line, 1) \notin UpperSet THEN NoMatch
    ELSE LET ends == { k \in 2..class_run_end(line, 2) : tail_match(line, k + 1) # 0 }
         IN  IF ends = {} THEN NoMatch
             ELSE LET k == Max(ends) IN
                  [ matched |-> TRUE,
                    prefix  |-> SubSeq(line, 1, k),
                    content |-> SubSeq(line, tail_match(line, k + 1), Len(line)) ]

(***************************************************************************)
(* The speaker resolver.                                                   *)
(***************************************************************************)
\* words_no_ap = re.sub(r"'", "", lower_prefix).split()
words_no_ap(lower_prefix) == split_ws(remove_apostrophes(lower_prefix))

any_word_in(words, S) == \E k \in DOMAIN words : words[k] \in S

\* primary_rejects without the GROUP_INDICATORS check of line 156.
primary_rejects_no_indicators(lower_prefix) ==
    \/ lower_prefix \in GROUP_SPEAKER_PHRASES
    \/ lower_prefix \in GENERIC_ROLES
    \/ any_word_in(words_no_ap(lower_prefix), GROUP_SPEAKER_PHRASES)
    \/ any_word_in(words_no_ap(lower_prefix), GENERIC_ROLES)

\* The rejections of the primary path (lines 145-157, and 266-278).
primary_rejects(lower_prefix) ==
    \/ lower_prefix \in GROUP_SPEAKER_PHRASES
    \/ lower_prefix \in GENERIC_ROLES
    \/ any_word_in(words_no_ap(lower_prefix), GROUP_SPEAKER_PHRASES)
    \/ any_word_in(words_no_ap(lower_prefix), GENERIC_ROLES)
    \/ any_word_in(words_no_ap(lower_prefix), GROUP_INDICATORS)

\* Line 159 (and 280): the prefix holds an action word, go to the fallback.
has_action_word(lower_prefix) == any_word_in(words_no_ap(lower_prefix), ACTION_WORDS)

\* \w of the re module, for the characters of the model.
WordChars == AlphaSet \cup { "0", "1", "2", "3", "4", "5", "6", "7", "8", "9", "_" }

\* re.sub(r"\band\b|&", ",", raw, flags=re.IGNORECASE), scanning from index i.
RECURSIVE sub_and_from(_, _)
sub_and_from(raw, i) ==
    IF i > Len(raw) THEN ""
    ELSE IF Char(raw, i) = "&" THEN "," \o sub_and_from(raw, i + 1)
    ELSE IF /\ i + 2 <= Len(raw)
            /\ lower(SubSeq(raw, i, i + 2)) = "and"
            /\ (i = 1 \/ Char(raw, i - 1) \notin WordChars)
            /\ (i + 3 > Len(raw) \/ Char(raw, i + 3) \notin WordChars)
         THEN "," \o sub_and_from(raw, i + 3)
    ELSE Char(raw, i) \o sub_and_from(raw, i + 1)

\* [p.strip().title() for p in parts if p.strip()]
RECURSIVE strip_title_parts(_)
strip_title_parts(parts) ==
    IF parts = << >> THEN << >>
    ELSE (IF strip(Head(parts)) # "" THEN << title(strip(Head(parts))) >> ELSE << >>)
         \o strip_title_parts(Tail(parts))

split_multi_speaker(raw0) ==
    LET raw == lower(strip(raw0)) IN
    IF raw \in GROUP_SPEAKER_PHRASES THEN << >>
    ELSE strip_title_parts(split_on(sub_and_from(raw, 1), ","))

\* NAME_MAP.get(key, default)
name_map_get(key, default) ==
    IF \E k \in DOMAIN NAME_MAP : NAME_MAP[k][1] = key
      THEN NAME_MAP[CHOOSE k \in DOMAIN NAME_MAP : NAME_MAP[k][1] = key][2]
      ELSE default

\* normalized = NAME_MAP.get(speaker.upper(), speaker.title())
normalize(speaker) == name_map_get(upper(speaker), title(speaker))

\* The names lines 162-165 add for a prefix, in order.
primary_names(prefix) ==
    LET speakers == split_multi_speaker(prefix) IN
    [ k \in DOMAIN speakers |-> normalize(speakers[k]) ]

\* [name for name in MAIN_CHARS if name.lower() in lower_prefix]
RECURSIVE main_chars_in(_, _)
main_chars_in(names, lower_prefix) ==
    IF names = << >> THEN << >>
    ELSE (IF contains(lower_prefix, lower(Head(names))) THEN << Head(names) >> ELSE << >>)
         \o main_chars_in(Tail(names), lower_prefix)

\* The rejections of the fallback path (lines 174-181, and 297-304).
fallback_rejects(lower_prefix) ==
    \/ lower_prefix \in GROUP_SPEAKER_PHRASES
    \/ lower_prefix \in GENERIC_ROLES
    \/ any_word_in(words_no_ap(lower_prefix), GROUP_INDICATORS)

\* A fallback that takes the first principal name found, however many occur.
fallback_names_first(line) ==
    IF ~contains(line, ":") THEN << >>
    ELSE LET prefix == strip(split_on(line, ":")[1])
             lower_prefix == lower(prefix)
         IN  IF fallback_rejects(lower_prefix) THEN << >>
             ELSE LET fallback == main_chars_in(MAIN_CHARS, lower_prefix) IN
                  IF Len(fallback) >= 1 THEN << fallback[1] >> ELSE << >>

\* Lines 170-189 (and 293-313): the names the fallback adds, none or one.
fallback_names(line) ==
    IF ~contains(line, ":") THEN << >>
    ELSE LET prefix == strip(split_on(line, ":")[1])
             lower_prefix == lower(prefix)
         IN  IF fallback_rejects(lower_prefix) THEN << >>
             ELSE LET fallback == main_chars_in(MAIN_CHARS, lower_prefix) IN
                  IF Len(fallback) = 1 THEN fallback ELSE << >>

(***************************************************************************)
(* The interaction table (lines 197-202, and 321-326).                     *)
(***************************************************************************)
\* interaction_counter[key] += 1
counter_incr(counter, key) ==
    [ k \in DOMAIN counter \cup { key } |->
        IF k = key THEN (IF key \in DOMAIN counter THEN counter[key] + 1 ELSE 1)
        ELSE counter[k] ]

RECURSIVE count_pairs(_, _)
count_pairs(pairs, counter) ==
    IF pairs = << >> THEN counter
    ELSE count_pairs(Tail(pairs), counter_incr(counter, Head(pairs)))

\* scene_pairs without the sort of line 199: the names in descending order.
RECURSIVE reversed(_)
reversed(seq) == IF seq = << >> THEN << >> ELSE Append(reversed(Tail(seq)), Head(seq))

scene_pairs_unsorted(scene) == combinations2(reversed(sorted(scene)))

\* The pairs of one scene, in the order the inner loop visits them.
scene_pairs(scene) == combinations2(sorted(scene))

RECURSIVE count_scenes(_, _)
count_scenes(scenes, counter) ==
    IF scenes = << >> THEN counter
    ELSE count_scenes(Tail(scenes), count_pairs(scene_pairs(Head(scenes)), counter))

EmptyCounter == [ k \in {} |-> 0 ]

\* interactions_of that leaves the first scene of the list out of the count.
interactions_of_later_scenes(scenes) ==
    IF scenes = << >> THEN EmptyCounter ELSE count_scenes(Tail(scenes), EmptyCounter)


interactions_of(scenes) == count_scenes(scenes, EmptyCounter)

(***************************************************************************)
(* dict as the list of its (key, value) items in insertion order.          *)
(***************************************************************************)
dict_has(d, key) == \E k \in DOMAIN d : d[k][1] = key

dict_get(d, key, default) ==
    IF dict_has(d, key) THEN d[CHOOSE k \in DOMAIN d : d[k][1] = key][2] ELSE default

\* d[key] = value
dict_set(d, key, value) ==
    IF dict_has(d, key)
      THEN [ k \in DOMAIN d |-> IF d[k][1] = key THEN << key, value >> ELSE d[k] ]
      ELSE Append(d, << key, value >>)

dict_keys(d) == { d[k][1] : k \in DOMAIN d }

(***************************************************************************)
(* The input: the lines a script can hold.                                 *)
(***************************************************************************)
LinePool ==
    { "[Scene: Central Perk]",
      "Monica: Hi! How's it going?",
      "All: Oh my God!",
      "Phoebe shakes her hand and says: Phoe-Be.",
      "Rahcel and Chan: No",
      "Monica (to Ross) hello",
      "ross and all: hi",
      "Phoebe's Friends: Hi",
      "Monica looks at Ross: Hi",
      "Waiter: Here you go",
      "(They all stare.)",
      "Written by: Ross",
      "  ",
      "Opening Credits",
      "Zed looks up: hm",
      "MONICA AND ROSS: Hey" }

Scripts == UNION { [ 1..n -> LinePool ] : n \in 0..MaxLines }

\* Lines whose text before the colon holds a '-'.
HyphenLines ==
    { "Jean-Luc and Ross: Hi",
      "Mary-Monica: hi" }

AllLines == LinePool \cup HyphenLines

(***************************************************************************)
(* parse_episode_file                                                      *)
(***************************************************************************)
\* A boundary that appends the current scene whether or not it is empty.
close_scene_always(scenes, current_scene) == Append(scenes, current_scene)

\* The scene boundary (lines 130-136, and 249-255).
close_scene(scenes, current_scene) ==
    IF current_scene # {} THEN Append(scenes, current_scene) ELSE scenes

\* The lines 116-127 (and 236-246) skip.
is_skipped(line) ==
    line = "" \/ is_credit_line(line) \/ is_stage_direction(line)

\* The names one dialogue line adds to current_scene (lines 138-192).
scenes_line_names(line) ==
    LET m == normal_match_scenes(line)
        prefix == strip(m.prefix)
        lower_prefix == lower(prefix)
    IN  IF m.matched /\ primary_rejects(lower_prefix) THEN << >>
        ELSE IF m.matched /\ ~has_action_word(lower_prefix) THEN primary_names(prefix)
        ELSE fallback_names(line)

\* What one iteration of the loop of line 115 does with a raw line.
scenes_effect(raw_line) ==
    LET line == strip(raw_line) IN
    IF is_skipped(line) THEN [ kind |-> "skip", names |-> << >> ]
    ELSE IF is_scene_boundary(line) THEN [ kind |-> "boundary", names |-> << >> ]
    ELSE [ kind |-> "dialogue", names |-> scenes_line_names(line) ]

\* scenes_effect of every line of the input, computed once.
ScenesEffect == [ l \in AllLines |-> scenes_effect(l) ]

\* One iteration of the loop of line 115.
ScenesLine ==
    /\ ps.pc = "loop"
    /\ ps.i < Len(text)
    /\ LET e == ScenesEffect[text[ps.i + 1]] IN
       ps' = IF e.kind = "skip" THEN [ ps EXCEPT !.i = @ + 1 ]
             ELSE IF e.kind = "boundary"
               THEN [ ps EXCEPT !.i = @ + 1,
                                !.scenes = close_scene(ps.scenes, ps.current_scene),
                                !.current_scene = {} ]
             ELSE [ ps EXCEPT !.i = @ + 1,
                              !.current_scene = @ \cup Range(e.names) ]
    /\ UNCHANGED << text, pw >>
    /\ UNCHANGED graphVars

\* Lines 194-202: the open scene is flushed, the pairs are counted, the
\* function returns.
ScenesReturn ==
    /\ ps.pc = "loop"
    /\ ps.i = Len(text)
    /\ LET scenes == close_scene(ps.scenes, ps.current_scene) IN
       ps' = [ ps EXCEPT !.pc = "done",
                         !.scenes = scenes,
                         !.interaction_counter = interactions_of(scenes) ]
    /\ UNCHANGED << text, pw >>
    /\ UNCHANGED graphVars

(***************************************************************************)
(* parse_episode_file_with_wordcount                                       *)
(***************************************************************************)
\* The primary path counting characters, as line 309 does for the fallback.
word_len_chars(content) == Len(content)

\* len(content.split())
word_len(content) == Len(split_ws(content))

\* What lines 257-316 decide for a dialogue line: whether the pattern
\* matched (and then `content` is assigned), which path resolves the line
\* and the names that path adds.
wordcount_dialogue(line) ==
    LET m == normal_match_wordcount(line)
        prefix == strip(m.prefix)
        lower_prefix == lower(prefix)
        base == [ kind |-> "dialogue", matched |-> m.matched, content |-> strip(m.content) ]
    IN  IF m.matched /\ primary_rejects(lower_prefix)
          THEN base @@ [ path |-> "rejected", names |-> << >> ]
        ELSE IF m.matched /\ ~has_action_word(lower_prefix)
          THEN base @@ [ path |-> "primary", names |-> primary_names(prefix) ]
        ELSE base @@ [ path |-> "fallback", names |-> fallback_names(line) ]

\* What one iteration of the loop of line 235 does with a raw line.
wordcount_effect(raw_line) ==
    LET line == strip(raw_line)
        none == [ matched |-> FALSE, content |-> "", path |-> "none", names |-> << >> ]
    IN  IF is_skipped(line) THEN [ kind |-> "skip" ] @@ none
        ELSE IF is_scene_boundary(line) THEN [ kind |-> "boundary" ] @@ none
        ELSE wordcount_dialogue(line)

\* wordcount_effect of every line of the input, computed once.
WordcountEffect == [ l \in AllLines |-> wordcount_effect(l) ]

\* Lines 284-288: every speaker is added to the scene and gets the words.
RECURSIVE add_speakers(_, _, _)
add_speakers(st, names, n) ==
    IF names = << >> THEN st
    ELSE add_speakers(
           [ st EXCEPT !.current_scene = @ \cup { Head(names) },
                       !.word_count = dict_set(@, Head(names),
                                               dict_get(@, Head(names), 0) + n) ],
           Tail(names), n)

\* The amount line 309 adds: len(content).
fallback_amount(content) == Len(content)

\* Lines 307-310: the fallback adds its name, then reads `content`; the
\* local is unbound unless this line or an earlier one matched the pattern.
add_fallback(st, names) ==
    IF names = << >> THEN st
    ELSE LET added == [ st EXCEPT !.current_scene = @ \cup { names[1] } ] IN
         IF ~st.content_bound THEN [ added EXCEPT !.pc = "raised" ]
         ELSE [ added EXCEPT !.word_count =
                  dict_set(@, names[1],
                           dict_get(@, names[1], 0) + fallback_amount(st.content)) ]

\* Lines 261-313 applied to the locals.
apply_dialogue(st0, e) ==
    LET st == IF e.matched
                THEN [ st0 EXCEPT !.content = e.content, !.content_bound = TRUE ]
                ELSE st0
    IN  IF e.path = "rejected" THEN st
        ELSE IF e.path = "primary" THEN add_speakers(st, e.names, word_len(st.content))
        ELSE add_fallback(st, e.names)

\* One iteration of the loop of line 235.
WordcountLine ==
    /\ ps.pc = "done"
    /\ pw.pc = "loop"
    /\ pw.i < Len(text)
    /\ LET e == WordcountEffect[text[pw.i + 1]]
           st == [ pw EXCEPT !.i = @ + 1 ]
       IN  pw' = IF e.kind = "skip" THEN st
                 ELSE IF e.kind = "boundary"
                   THEN [ st EXCEPT !.scenes = close_scene(pw.scenes, pw.current_scene),
                                    !.current_scene = {} ]
                 ELSE apply_dialogue(st, e)
    /\ UNCHANGED << text, ps >>
    /\ UNCHANGED graphVars

\* Lines 318-326.
WordcountReturn ==
    /\ ps.pc = "done"
    /\ pw.pc = "loop"
    /\ pw.i = Len(text)
    /\ LET scenes == close_scene(pw.scenes, pw.current_scene) IN
       pw' = [ pw EXCEPT !.pc = "done",
                         !.scenes = scenes,
                         !.interaction_counter = interactions_of(scenes) ]
    /\ UNCHANGED << text, ps >>
    /\ UNCHANGED graphVars

(***************************************************************************)
(* The parser specification: a script is read, parse_episode_file runs on  *)
(* it, then parse_episode_file_with_wordcount runs on the same text.       *)
(***************************************************************************)
NoCall == [ made |-> FALSE, op |-> "none",
            a |-> "", b |-> "", weight |-> 0, before |-> 0, run |-> 0 ]

NoPath == [ asked |-> FALSE, start |-> "", end |-> "", found |-> FALSE, path |-> << >> ]

NoTop == [ asked |-> FALSE, k |-> 0, min_episodes |-> 0, result |-> << >> ]

\* No JSON file has been loaded.
NoJson == [ interactions |-> << >>, characters |-> << >>,
            wordcount |-> << >>, popularity |-> << >> ]

NoSeasonGraphs == << >>

\* FriendsCLI before __init__ has run.
NoCli == [ loaded |-> FALSE ]

GraphIdle ==
    /\ nodes = << >>
    /\ raised = FALSE
    /\ calls = 0
    /\ prev_call = NoCall
    /\ path_result = NoPath
    /\ top_result = NoTop

SessionIdle ==
    /\ json = NoJson
    /\ season_graphs = NoSeasonGraphs
    /\ cli = NoCli

ParseIdle ==
    /\ ps = [ pc |-> "loop", i |-> 0, scenes |-> << >>, current_scene |-> {},
              interaction_counter |-> EmptyCounter ]
    /\ pw = [ pc |-> "loop", i |-> 0, scenes |-> << >>, current_scene |-> {},
              word_count |-> << >>, content |-> "", content_bound |-> FALSE,
              interaction_counter |-> EmptyCounter ]

ParseInit ==
    /\ text \in Scripts
    /\ ParseIdle
    /\ GraphIdle
    /\ SessionIdle

ParseNext == ScenesLine \/ ScenesReturn \/ WordcountLine \/ WordcountReturn

ParseSpec == ParseInit /\ [][ParseNext]_vars

(***************************************************************************)
(* Node and Graph (GraphConstruct.py).  A dict is the list of its items in *)
(* insertion order: nodes is a list of (name, Node), Node.neighbors a list *)
(* of (neighbor, weight).                                                  *)
(***************************************************************************)
\* Node.__init__
Node(name) ==
    [ name |-> name, neighbors |-> << >>, degree |-> 0, weighted_degree |-> 0,
      pop_scores |-> << >>, effective_pop_scores |-> << >> ]

\* add_neighbor that forgets `weighted_degree += weight` for a known neighbor.
add_neighbor_no_weighted(node, neighbor, weight) ==
    IF dict_has(node.neighbors, neighbor)
      THEN [ node EXCEPT
               !.neighbors = dict_set(@, neighbor, dict_get(@, neighbor, 0) + weight) ]
      ELSE [ node EXCEPT
               !.neighbors = dict_set(@, neighbor, weight),
               !.degree = @ + 1,
               !.weighted_degree = @ + weight ]

\* add_neighbor that counts a known neighbor again in degree.
add_neighbor_degree_again(node, neighbor, weight) ==
    [ node EXCEPT
        !.neighbors = dict_set(@, neighbor, dict_get(@, neighbor, 0) + weight),
        !.degree = @ + 1,
        !.weighted_degree = @ + weight ]

\* Node.add_neighbor
add_neighbor(node, neighbor, weight) ==
    IF dict_has(node.neighbors, neighbor)
      THEN [ node EXCEPT
               !.neighbors = dict_set(@, neighbor, dict_get(@, neighbor, 0) + weight),
               !.weighted_degree = @ + weight ]
      ELSE [ node EXCEPT
               !.neighbors = dict_set(@, neighbor, weight),
               !.degree = @ + 1,
               !.weighted_degree = @ + weight ]

\* Node.add_popularity_score (a score of the input is never None)
add_popularity_score(node, score) ==
    [ node EXCEPT !.pop_scores = Append(@, score) ]

\* Node.add_effective_popularity_score
add_effective_popularity_score(node, score) ==
    [ node EXCEPT !.effective_pop_scores = Append(@, score) ]

\* self.nodes[name]
node_of(g, name) == dict_get(g, name, Node(name))

\* Graph.add_node
add_node(g, name) ==
    IF dict_has(g, name) THEN g ELSE dict_set(g, name, Node(name))

\* add_edge that records the edge on a's node only.
add_edge_one_way(g, a, b, weight) ==
    LET g1 == IF dict_has(g, a) THEN g ELSE dict_set(g, a, Node(a))
        g2 == IF dict_has(g1, b) THEN g1 ELSE dict_set(g1, b, Node(b))
    IN  dict_set(g2, a, add_neighbor(dict_get(g2, a, Node(a)), b, weight))

\* add_edge that records the edge on b's node with weight 1.
add_edge_unit_back(g, a, b, weight) ==
    LET g1 == IF dict_has(g, a) THEN g ELSE dict_set(g, a, Node(a))
        g2 == IF dict_has(g1, b) THEN g1 ELSE dict_set(g1, b, Node(b))
        g3 == dict_set(g2, a, add_neighbor(dict_get(g2, a, Node(a)), b, weight))
    IN  dict_set(g3, b, add_neighbor(dict_get(g3, b, Node(b)), a, 1))


\* Graph.add_edge
add_edge(g, a, b, weight) ==
    LET g1 == add_node(g, a)
        g2 == add_node(g1, b)
        g3 == dict_set(g2, a, add_neighbor(node_of(g2, a), b, weight))
    IN  dict_set(g3, b, add_neighbor(node_of(g3, b), a, weight))

\* The inner loop of build_graph_from_interactions (lines 178-180) over the
\* items of one episode: `a, b = pair.split("-")` raises unless the key
\* splits into exactly two parts.
RECURSIVE add_interactions(_, _)
add_interactions(st, items) ==
    IF items = << >> \/ st.raised THEN st
    ELSE LET parts == split_on(Head(items)[1], "-") IN
         IF Len(parts) # 2 THEN [ st EXCEPT !.raised = TRUE ]
         ELSE add_interactions(
                [ st EXCEPT !.nodes = add_edge(@, parts[1], parts[2], Head(items)[2]) ],
                Tail(items))

\* Graph.build_graph_from_interactions: the outer loop (line 177).
RECURSIVE build_graph_from_interactions(_, _)
build_graph_from_interactions(st, episode_interactions) ==
    IF episode_interactions = << >> \/ st.raised THEN st
    ELSE build_graph_from_interactions(
           add_interactions(st, Head(episode_interactions)[2]),
           Tail(episode_interactions))

(***************************************************************************)
(* build_graph_by_seasons                                                  *)
(***************************************************************************)
Digits == "0123456789"

DigitSet == { Char(Digits, i) : i \in 1..Len(Digits) }

\* int(s) for a string of digits.
RECURSIVE int_of(_, _)
int_of(s, acc) ==
    IF s = "" THEN acc
    ELSE int_of(Tail(s),
                acc * 10 + (CHOOSE d \in 0..9 : Char(Digits, d + 1) = Char(s, 1)))

\* The index behind the run of digits of s that starts at index i.
RECURSIVE digit_run_end(_, _)
digit_run_end(s, i) ==
    IF i <= Len(s) /\ Char(s, i) \in DigitSet THEN digit_run_end(s, i + 1) ELSE i

\* re.search(r"S(\d+)E", episode_id), tried from index i on: whether it
\* matches, and int(match.group(1)).
RECURSIVE season_search(_, _)
season_search(episode_id, i) ==
    IF i > Len(episode_id) THEN [ matched |-> FALSE, season_num |-> 0 ]
    ELSE LET e == digit_run_end(episode_id, i + 1) IN
         IF /\ Char(episode_id, i) = "S"
            /\ e > i + 1
            /\ e <= Len(episode_id)
            /\ Char(episode_id, e) = "E"
           THEN [ matched |-> TRUE,
                  season_num |-> int_of(SubSeq(episode_id, i + 1, e - 1), 0) ]
           ELSE season_search(episode_id, i + 1)

\* The test of line 332 turned round: the episodes of the other seasons.
in_seasons_inverted(episode_id, seasons) ==
    LET match == season_search(episode_id, 1) IN
    match.matched /\ match.season_num \notin seasons

\* Whether build_graph_by_seasons takes the episode (lines 327-333).
in_seasons(episode_id, seasons) ==
    LET match == season_search(episode_id, 1) IN
    match.matched /\ match.season_num \in seasons

\* The loop of lines 326-337 leaving at the first episode it takes.
RECURSIVE add_season_episodes_first(_, _, _)
add_season_episodes_first(st, episode_interactions, seasons) ==
    IF episode_interactions = << >> THEN st
    ELSE IF in_seasons(Head(episode_interactions)[1], seasons)
      THEN add_interactions(st, Head(episode_interactions)[2])
    ELSE add_season_episodes_first(st, Tail(episode_interactions), seasons)

\* The loop of lines 326-337 over the episodes, on the graph st.
RECURSIVE add_season_episodes(_, _, _)
add_season_episodes(st, episode_interactions, seasons) ==
    IF episode_interactions = << >> \/ st.raised THEN st
    ELSE LET episode_id == Head(episode_interactions)[1]
             interaction_dict == Head(episode_interactions)[2]
         IN  add_season_episodes(
               IF in_seasons(episode_id, seasons)
                 THEN add_interactions(st, interaction_dict) ELSE st,
               Tail(episode_interactions), seasons)

\* build_graph_by_seasons: the new graph g, and whether line 336 raised.
build_graph_by_seasons(episode_interactions, seasons) ==
    add_season_episodes([ nodes |-> << >>, raised |-> FALSE ], episode_interactions, seasons)


\* Lines 194-196: every character of the episode gets the score.
RECURSIVE add_presence_scores(_, _, _)
add_presence_scores(g, chars, score) ==
    IF chars = << >> THEN g
    ELSE LET g1 == add_node(g, Head(chars)) IN
         add_presence_scores(
           dict_set(g1, Head(chars), add_popularity_score(node_of(g1, Head(chars)), score)),
           Tail(chars), score)

\* add_popularity_by_presence without the skip of lines 190-192: an episode
\* without a score gives its characters the score 0.
RECURSIVE add_popularity_by_presence_no_skip(_, _, _)
add_popularity_by_presence_no_skip(g, episode_characters, episode_popularity) ==
    IF episode_characters = << >> THEN g
    ELSE add_popularity_by_presence_no_skip(
           add_presence_scores(g, Head(episode_characters)[2],
                               dict_get(episode_popularity, Head(episode_characters)[1], 0)),
           Tail(episode_characters), episode_popularity)


\* Graph.add_popularity_by_presence
RECURSIVE add_popularity_by_presence(_, _, _)
add_popularity_by_presence(g, episode_characters, episode_popularity) ==
    IF episode_characters = << >> THEN g
    ELSE LET epi_id == Head(episode_characters)[1]
             chars == Head(episode_characters)[2]
             rest == Tail(episode_characters)
         IN  IF ~dict_has(episode_popularity, epi_id)
               THEN add_popularity_by_presence(g, rest, episode_popularity)
               ELSE add_popularity_by_presence(
                      add_presence_scores(g, chars, dict_get(episode_popularity, epi_id, 0)),
                      rest, episode_popularity)

\* insert_desc putting the item before the items of equal value: a sort
\* that is not stable.
RECURSIVE insert_desc_before_equal(_, _)
insert_desc_before_equal(sorted_items, item) ==
    IF sorted_items = << >> THEN << item >>
    ELSE IF Head(sorted_items)[2] > item[2]
      THEN << Head(sorted_items) >> \o insert_desc_before_equal(Tail(sorted_items), item)
    ELSE << item >> \o sorted_items


\* One item put into a list that is sorted by value, descending, behind the
\* items of equal value (a stable sort).
RECURSIVE insert_desc(_, _)
insert_desc(sorted_items, item) ==
    IF sorted_items = << >> THEN << item >>
    ELSE IF Head(sorted_items)[2] >= item[2]
      THEN << Head(sorted_items) >> \o insert_desc(Tail(sorted_items), item)
    ELSE << item >> \o sorted_items

\* sorted(items, key=lambda x: x[1], reverse=True)
RECURSIVE sorted_desc(_, _)
sorted_desc(items, acc) ==
    IF items = << >> THEN acc
    ELSE sorted_desc(Tail(items), insert_desc(acc, Head(items)))

\* seq[:k]
take(seq, k) == SubSeq(seq, 1, IF k < Len(seq) THEN k ELSE Len(seq))

\* Lines 216-218.
RECURSIVE add_effective_scores(_, _, _)
add_effective_scores(g, top_items, score) ==
    IF top_items = << >> THEN g
    ELSE LET char == Head(top_items)[1]
             g1 == add_node(g, char)
         IN  add_effective_scores(
               dict_set(g1, char, add_effective_popularity_score(node_of(g1, char), score)),
               Tail(top_items), score)

\* Graph.add_popularity_by_wordcount
RECURSIVE add_popularity_by_wordcount(_, _, _, _)
add_popularity_by_wordcount(g, episode_wordcount, episode_popularity, top_k) ==
    IF episode_wordcount = << >> THEN g
    ELSE LET episode_id == Head(episode_wordcount)[1]
             wc_dict == Head(episode_wordcount)[2]
             rest == Tail(episode_wordcount)
         IN  IF ~dict_has(episode_popularity, episode_id)
               THEN add_popularity_by_wordcount(g, rest, episode_popularity, top_k)
               ELSE add_popularity_by_wordcount(
                      add_effective_scores(g, take(sorted_desc(wc_dict, << >>), top_k),
                                           dict_get(episode_popularity, episode_id, 0)),
                      rest, episode_popularity, top_k)

\* sum(scores)
RECURSIVE sum(_)
sum(scores) == IF scores = << >> THEN 0 ELSE Head(scores) + sum(Tail(scores))

\* Node.avg_popularity: None for a node without scores, otherwise
\* sum(pop_scores) / len(pop_scores), held as the fraction sum / len.
avg_popularity(node) ==
    IF node.pop_scores = << >> THEN [ none |-> TRUE, sum |-> 0, len |-> 1 ]
    ELSE [ none |-> FALSE, sum |-> sum(node.pop_scores), len |-> Len(node.pop_scores) ]

\* x >= y for two means held as fractions.
avg_ge(x, y) == x.sum * y.len >= y.sum * x.len

\* The candidates of line 230 without the test on the number of scores.
RECURSIVE popularity_candidates_any(_, _)
popularity_candidates_any(g, min_episodes) ==
    IF g = << >> THEN << >>
    ELSE (IF ~avg_popularity(Head(g)[2]).none THEN << Head(g)[2] >> ELSE << >>)
         \o popularity_candidates_any(Tail(g), min_episodes)

\* Lines 230-233: the nodes with enough scores, in the order of self.nodes.
RECURSIVE popularity_candidates(_, _)
popularity_candidates(g, min_episodes) ==
    IF g = << >> THEN << >>
    ELSE (IF /\ Len(Head(g)[2].pop_scores) >= min_episodes
             /\ ~avg_popularity(Head(g)[2]).none
            THEN << Head(g)[2] >> ELSE << >>)
         \o popularity_candidates(Tail(g), min_episodes)

\* One node put into a list sorted by mean, descending, behind the nodes of
\* equal mean (a stable sort).
RECURSIVE insert_by_avg(_, _)
insert_by_avg(sorted_nodes, node) ==
    IF sorted_nodes = << >> THEN << node >>
    ELSE IF avg_ge(avg_popularity(Head(sorted_nodes)), avg_popularity(node))
      THEN << Head(sorted_nodes) >> \o insert_by_avg(Tail(sorted_nodes), node)
    ELSE << node >> \o sorted_nodes

\* sorted(candidates, key=lambda n: n.avg_popularity(), reverse=True)
RECURSIVE sorted_by_avg(_, _)
sorted_by_avg(items, acc) ==
    IF items = << >> THEN acc
    ELSE sorted_by_avg(Tail(items), insert_by_avg(acc, Head(items)))

\* Graph.top_k_by_popularity, for k >= 0.
top_k_by_popularity(g, k, min_episodes) ==
    take(sorted_by_avg(popularity_candidates(g, min_episodes), << >>), k)


\* The loop of lines 300-303 over the neighbors of the current node: bfs
\* holds the queue and the visited set.
RECURSIVE visit_neighbors(_, _, _)
visit_neighbors(bfs, neighbors, path) ==
    IF neighbors = << >> THEN bfs
    ELSE LET neighbor == Head(neighbors)[1] IN
         IF neighbor \in bfs.visited THEN visit_neighbors(bfs, Tail(neighbors), path)
         ELSE visit_neighbors(
                [ queue |-> Append(bfs.queue, << neighbor, path \o << neighbor >> >>),
                  visited |-> bfs.visited \cup { neighbor } ],
                Tail(neighbors), path)

\* deque.pop(): the newest entry is taken, the queue works as a stack.
pop_right(queue) ==
    [ item |-> queue[Len(queue)], rest |-> SubSeq(queue, 1, Len(queue) - 1) ]

\* deque.popleft(): the entry taken from the queue, and the rest.
popleft(queue) == [ item |-> Head(queue), rest |-> Tail(queue) ]

\* The loop of lines 295-305.
RECURSIVE bfs_loop(_, _, _)
bfs_loop(g, end, bfs) ==
    IF bfs.queue = << >> THEN [ found |-> FALSE, path |-> << >> ]
    ELSE LET p == popleft(bfs.queue)
             curr == p.item[1]
             path == p.item[2]
         IN  IF curr = end THEN [ found |-> TRUE, path |-> path ]
             ELSE bfs_loop(g, end,
                    visit_neighbors([ queue |-> p.rest, visited |-> bfs.visited ],
                                    node_of(g, curr).neighbors, path))

\* Graph.shortest_path: found is FALSE for None.
shortest_path(g, start, end) ==
    IF ~dict_has(g, start) \/ ~dict_has(g, end) THEN [ found |-> FALSE, path |-> << >> ]
    ELSE bfs_loop(g, end, [ queue |-> << << start, << start >> >> >>, visited |-> { start } ])

(***************************************************************************)
(* The inputs of the Graph calls.                                          *)
(***************************************************************************)
Names == { "Joey", "Monica", "Ross" }

Weights == { 1, 2 }

\* episode_interactions: episode_id -> { "A-B": weight }
InteractionInputs ==
    { << << "S01E01", << << "Joey-Ross", 1 >> >> >> >>,
      << << "S01E01", << << "Joey-Ross", 2 >>, << "Monica-Ross", 1 >> >> >>,
         << "S02E01", << << "Joey-Ross", 1 >> >> >> >>,
      << << "S01E01", << << "Joey-Monica", 1 >>, << "Jean-Luc-Ross", 1 >>,
                         << "Monica-Ross", 2 >> >> >> >> }

\* (episode_characters, episode_popularity); a score is held in tenths of a
\* star, and every score of the model is a multiple of half a star, which a
\* float holds exactly.
PresenceInputs ==
    { << << << "S01E01", << "Joey", "Ross" >> >>, << "S02E01", << "Monica" >> >> >>,
         << << "S01E01", 80 >> >> >>,
      << << << "S01E01", << "Gunther" >> >>, << "S02E01", << "Gunther", "Ross" >> >> >>,
         << << "S01E01", 90 >>, << "S02E01", 75 >> >> >> }

\* (episode_wordcount, episode_popularity, top_k)
WordcountInputs ==
    { << << << "S01E01", << << "Joey", 5 >>, << "Ross", 9 >>, << "Monica", 5 >> >> >>,
            << "S02E01", << << "Ross", 3 >> >> >> >>,
         << << "S01E01", 80 >> >>, 2 >>,
      << << << "S01E01", << << "Gunther", 4 >>, << "Joey", 4 >> >> >> >>,
         << << "S01E01", 90 >> >>, 1 >> }

(***************************************************************************)
(* The Graph calls.                                                        *)
(***************************************************************************)
CanMutate == ~raised /\ calls < MaxCalls

\* The weight of the edge a-b as a's node holds it, 0 when a has no such entry.
weight_at(g, a, b) == dict_get(node_of(g, a).neighbors, b, 0)

has_edge(g, a, b) == dict_has(g, a) /\ dict_has(node_of(g, a).neighbors, b)

AddEdge(a, b, weight) ==
    /\ CanMutate
    /\ nodes' = add_edge(nodes, a, b, weight)
    /\ calls' = calls + 1
    /\ prev_call' =
         [ made |-> TRUE, op |-> "add_edge", a |-> a, b |-> b, weight |-> weight,
           before |-> weight_at(nodes, a, b),
           run |-> IF prev_call.made /\ prev_call.a = a /\ prev_call.b = b
                     THEN prev_call.run + 1 ELSE 1 ]
    /\ path_result' = NoPath
    /\ top_result' = NoTop
    /\ UNCHANGED sessionVars
    /\ UNCHANGED << raised >>
    /\ UNCHANGED parseVars

BuildGraphFromInteractions(episode_interactions) ==
    /\ CanMutate
    /\ LET st == build_graph_from_interactions([ nodes |-> nodes, raised |-> FALSE ],
                                               episode_interactions)
       IN  nodes' = st.nodes /\ raised' = st.raised
    /\ calls' = calls + 1
    /\ prev_call' = NoCall
    /\ path_result' = NoPath
    /\ top_result' = NoTop
    /\ UNCHANGED sessionVars
    /\ UNCHANGED parseVars

AddPopularityByPresence(episode_characters, episode_popularity) ==
    /\ CanMutate
    /\ nodes' = add_popularity_by_presence(nodes, episode_characters, episode_popularity)
    /\ calls' = calls + 1
    /\ prev_call' = [ made |-> FALSE, op |-> "add_popularity_by_presence",
                      episode_characters |-> episode_characters,
                      episode_popularity |-> episode_popularity ]
    /\ path_result' = NoPath
    /\ top_result' = NoTop
    /\ UNCHANGED sessionVars
    /\ UNCHANGED << raised >>
    /\ UNCHANGED parseVars

AddPopularityByWordcount(episode_wordcount, episode_popularity, top_k) ==
    /\ CanMutate
    /\ nodes' = add_popularity_by_wordcount(nodes, episode_wordcount, episode_popularity, top_k)
    /\ calls' = calls + 1
    /\ prev_call' = [ made |-> FALSE, op |-> "add_popularity_by_wordcount",
                      episode_wordcount |-> episode_wordcount,
                      episode_popularity |-> episode_popularity,
                      top_k |-> top_k ]
    /\ path_result' = NoPath
    /\ top_result' = NoTop
    /\ UNCHANGED sessionVars
    /\ UNCHANGED << raised >>
    /\ UNCHANGED parseVars

ShortestPath(start, end) ==
    /\ ~raised
    /\ LET r == shortest_path(nodes, start, end) IN
       path_result' = [ asked |-> TRUE, start |-> start, end |-> end,
                        found |-> r.found, path |-> r.path ]
    /\ UNCHANGED << nodes, raised, calls, prev_call, top_result >>
    /\ UNCHANGED sessionVars
    /\ UNCHANGED parseVars

GraphInit ==
    /\ text = << >>
    /\ ParseIdle
    /\ GraphIdle
    /\ SessionIdle

\* Any sequence of the mutating Graph calls.
GraphNext ==
    \/ \E a \in Names, b \in Names, w \in Weights : AddEdge(a, b, w)
    \/ \E x \in InteractionInputs : BuildGraphFromInteractions(x)
    \/ \E x \in PresenceInputs : AddPopularityByPresence(x[1], x[2])
    \/ \E x \in WordcountInputs : AddPopularityByWordcount(x[1], x[2], x[3])

GraphSpec == GraphInit /\ [][GraphNext]_vars

\* The names a path is asked between.
PathNames == Names \cup { "Chandler", "Phoebe" }

\* Interaction tables for path queries: two routes of different length from
\* Joey to Phoebe, and a chain.
PathInputs ==
    { << << "S01E01", << << "Joey-Monica", 1 >>, << "Joey-Ross", 1 >>,
                         << "Monica-Phoebe", 2 >> >> >>,
         << "S01E02", << << "Chandler-Ross", 1 >>, << "Chandler-Phoebe", 1 >> >> >> >>,
      << << "S01E01", << << "Chandler-Joey", 1 >>, << "Chandler-Phoebe", 2 >> >> >> >> }

\* Graphs built by add_edge calls (directly, or by
\* build_graph_from_interactions), and one shortest_path call on the graph
\* built.  add_edge discards the result of an earlier query, so every state
\* of the free interleaving of the three calls is reached.
PathNext ==
    /\ ~path_result.asked
    /\ \/ calls < MaxPathCalls /\ \E a \in Names, b \in Names, w \in Weights : AddEdge(a, b, w)
       \/ calls < MaxPathCalls /\ \E x \in PathInputs : BuildGraphFromInteractions(x)
       \/ \E s \in PathNames, e \in PathNames : ShortestPath(s, e)

PathSpec == GraphInit /\ [][PathNext]_vars

(***************************************************************************)
(* Rankings: a graph with popularity scores, then one ranking query.       *)
(***************************************************************************)
\* (episode_characters, episode_popularity) for the rankings.
RankInputs ==
    { << << << "S01E01", << "Joey", "Ross" >> >>, << "S01E02", << "Ross", "Monica" >> >>,
            << "S01E03", << "Gunther" >> >>, << "S01E04", << "Joey" >> >> >>,
         << << "S01E01", 80 >>, << "S01E02", 90 >>, << "S01E03", 95 >> >> >>,
      << << << "S02E01", << "Monica", "Joey" >> >>, << "S02E02", << "Monica" >> >> >>,
         << << "S02E01", 70 >>, << "S02E02", 90 >> >> >>,
      << << << "S03E01", << "Chandler", "Gunther" >> >> >>,
         << << "S03E01", 85 >> >> >> }

\* The k and min_episodes of a query.
RankKs == 0..3

RankMinEpisodes == 0..3

\* Graph.top_k_by_popularity: the names of the nodes returned, in order.
TopKByPopularity(k, min_episodes) ==
    /\ ~raised
    /\ LET r == top_k_by_popularity(nodes, k, min_episodes) IN
       top_result' = [ asked |-> TRUE, k |-> k, min_episodes |-> min_episodes,
                       result |-> [ i \in DOMAIN r |-> r[i].name ] ]
    /\ UNCHANGED << nodes, raised, calls, prev_call, path_result >>
    /\ UNCHANGED sessionVars
    /\ UNCHANGED parseVars

RankNext ==
    /\ ~top_result.asked
    /\ \/ \E x \in RankInputs : AddPopularityByPresence(x[1], x[2])
       \/ \E a \in Names, b \in Names : AddEdge(a, b, 1)
       \/ \E k \in RankKs, m \in RankMinEpisodes : TopKByPopularity(k, m)

RankSpec == GraphInit /\ [][RankNext]_vars


(***************************************************************************)
(* The JSON tables of a session, and the season graphs built from them.    *)
(* Episode identifiers are those save_parsed_data_as_json writes: the      *)
(* upper-cased match of S\d+E\d+(?:-S?\d*E?\d+)? in the file name.         *)
(***************************************************************************)
Corpus1 ==
    [ interactions |->
        << << "S01E01", << << "Joey-Ross", 1 >>, << "Monica-Ross", 2 >> >> >>,
           << "S02E01", << << "Joey-Ross", 2 >> >> >>,
           << "S02E12-S02E13", << << "Joey-Monica", 1 >> >> >>,
           << "S10E01", << << "Chandler-Joey", 1 >> >> >> >>,
      characters |->
        << << "S01E01", << "Joey", "Monica", "Ross" >> >>,
           << "S02E01", << "Joey", "Ross" >> >>,
           << "S02E12-S02E13", << "Joey", "Monica" >> >>,
           << "S10E01", << "Chandler", "Joey" >> >> >>,
      wordcount |->
        << << "S01E01", << << "Ross", 9 >>, << "Joey", 5 >>, << "Monica", 5 >> >> >>,
           << "S02E01", << << "Joey", 3 >>, << "Ross", 3 >> >> >>,
           << "S10E01", << << "Chandler", 7 >>, << "Joey", 2 >> >> >> >>,
      popularity |->
        << << "S01E01", 80 >>, << "S02E01", 90 >>, << "S10E01", 85 >> >> ]

Corpus2 ==
    [ interactions |->
        << << "S01E24-S02E01", << << "Joey-Ross", 1 >>, << "Phoebe-Ross", 1 >> >> >>,
           << "S02E02", << << "Joey-Ross", 3 >> >> >>,
           << "S02E03", << >> >> >>,
      characters |->
        << << "S01E24-S02E01", << "Joey", "Phoebe", "Ross" >> >>,
           << "S02E02", << "Joey", "Ross" >> >>,
           << "S02E03", << "Gunther" >> >> >>,
      wordcount |->
        << << "S02E02", << << "Joey", 4 >>, << "Ross", 6 >> >> >>,
           << "S02E03", << << "Gunther", 2 >> >> >> >>,
      popularity |->
        << << "S02E02", 75 >>, << "S02E03", 95 >> >> ]

Corpus3 ==
    [ interactions |->
        << << "S10E17-S10E18", << << "Monica-Ross", 2 >> >> >>,
           << "S01E01", << << "Monica-Ross", 1 >>, << "Joey-Monica", 1 >> >> >> >>,
      characters |->
        << << "S10E17-S10E18", << "Monica", "Ross" >> >>,
           << "S01E01", << "Joey", "Monica", "Ross" >> >> >>,
      wordcount |-> << >>,
      popularity |-> << << "S01E01", 90 >> >> ]

Corpora == { Corpus1, Corpus2, Corpus3 }

\* The season numbers of the episodes of the corpora.
SeasonNumbers == { 1, 2, 10 }

\* build_graph_by_seasons(episode_interactions, seasons) on the loaded
\* interactions; its result is kept under the seasons asked for.
BuildGraphBySeasons(seasons) ==
    /\ seasons \notin DOMAIN season_graphs
    /\ season_graphs' =
         season_graphs @@ (seasons :> build_graph_by_seasons(json.interactions, seasons))
    /\ UNCHANGED << json, cli >>
    /\ UNCHANGED << nodes, raised, calls, prev_call, path_result, top_result >>
    /\ UNCHANGED parseVars

SeasonInit ==
    /\ text = << >>
    /\ ParseIdle
    /\ GraphIdle
    /\ json \in Corpora
    /\ season_graphs = NoSeasonGraphs
    /\ cli = NoCli

\* The full graph is built once from the loaded interactions, and the
\* season graphs in any order.
SeasonNext ==
    \/ calls = 0 /\ BuildGraphFromInteractions(json.interactions)
    \/ \E seasons \in SUBSET SeasonNumbers : BuildGraphBySeasons(seasons)

SeasonSpec == SeasonInit /\ [][SeasonNext]_vars


(***************************************************************************)
(* FriendsCLI (main.py).  cli.heap holds the Graph objects the session     *)
(* refers to: cli.full_graph and cli.graph are references into it, so two  *)
(* attributes can name one object.  current_seasons is the str             *)
(* "All 10 seasons" or a list of season numbers.                           *)
(***************************************************************************)
AllSeasons == [ text |-> "All 10 seasons", list |-> << >> ]

\* FriendsCLI._load_full_graph, lines 71-74: the graph g.
load_full_graph(tables) ==
    LET built == build_graph_from_interactions([ nodes |-> << >>, raised |-> FALSE ],
                                               tables.interactions)
        present == add_popularity_by_presence(built.nodes, tables.characters,
                                              tables.popularity)
    IN  add_popularity_by_wordcount(present, tables.wordcount, tables.popularity, 5)

\* FriendsCLI.__init__ with _load_full_graph.
init_cli(tables) ==
    [ loaded |-> TRUE,
      command |-> "init",
      heap |-> << load_full_graph(tables) >>,
      full_graph |-> 1,
      graph |-> 1,
      current_seasons |-> AllSeasons ]

\* filter_by_season of filter_season (lines 101-110).
filter_by_season(d, seasons) ==
    SelectSeq(d, LAMBDA item : in_seasons(item[1], seasons))

\* The graph g of filter_season (lines 112-123).
season_graph(tables, seasons) ==
    LET episode_interactions == filter_by_season(tables.interactions, seasons)
        episode_characters == filter_by_season(tables.characters, seasons)
        episode_popularity == filter_by_season(tables.popularity, seasons)
        episode_wordcount == filter_by_season(tables.wordcount, seasons)
        g == build_graph_by_seasons(episode_interactions, seasons).nodes
        present == add_popularity_by_presence(g, episode_characters, episode_popularity)
    IN  IF episode_wordcount # << >>
          THEN add_popularity_by_wordcount(present, episode_wordcount, episode_popularity, 5)
          ELSE present

\* A filter_season that writes the season graph into the object of the
\* full graph instead of a new one.
filter_season_in_place(c, tables, season) ==
    [ c EXCEPT !.command = "season",
               !.heap = << season_graph(tables, { season }) >>,
               !.graph = 1,
               !.current_seasons = [ text |-> "", list |-> << season >> ] ]

\* FriendsCLI.filter_season(season) for an int: self.graph is a new object;
\* the object self.graph named before stays only when it is the full graph.
filter_season(c, tables, season) ==
    [ c EXCEPT !.command = "season",
               !.heap = << c.heap[c.full_graph], season_graph(tables, { season }) >>,
               !.graph = 2,
               !.current_seasons = [ text |-> "", list |-> << season >> ] ]

\* FriendsCLI.reset_graph
reset_graph(c) ==
    [ c EXCEPT !.command = "reset",
               !.heap = << c.heap[c.full_graph] >>,
               !.graph = c.full_graph,
               !.current_seasons = AllSeasons ]

\* The session starts: cli = FriendsCLI().
CliStart ==
    /\ ~cli.loaded
    /\ cli' = init_cli(json)
    /\ UNCHANGED << json, season_graphs >>
    /\ UNCHANGED << nodes, raised, calls, prev_call, path_result, top_result >>
    /\ UNCHANGED parseVars

\* The command "season <n>".
CliSeason(season) ==
    /\ cli.loaded
    /\ cli' = filter_season(cli, json, season)
    /\ path_result' = NoPath
    /\ top_result' = NoTop
    /\ UNCHANGED << json, season_graphs >>
    /\ UNCHANGED << nodes, raised, calls, prev_call >>
    /\ UNCHANGED parseVars

\* The command "season all".
CliReset ==
    /\ cli.loaded
    /\ cli' = reset_graph(cli)
    /\ path_result' = NoPath
    /\ top_result' = NoTop
    /\ UNCHANGED << json, season_graphs >>
    /\ UNCHANGED << nodes, raised, calls, prev_call >>
    /\ UNCHANGED parseVars

\* The command "path <start> <end>": a read of the current graph.
CliPath(start, end) ==
    /\ cli.loaded
    /\ LET r == shortest_path(cli.heap[cli.graph], start, end) IN
       path_result' = [ asked |-> TRUE, start |-> start, end |-> end,
                        found |-> r.found, path |-> r.path ]
    /\ cli' = [ cli EXCEPT !.command = "path" ]
    /\ UNCHANGED << json, season_graphs >>
    /\ UNCHANGED << nodes, raised, calls, prev_call, top_result >>
    /\ UNCHANGED parseVars

\* The command "popularity <k>": a read of the current graph, with the
\* default min_episodes = 5.
CliPopularity(k) ==
    /\ cli.loaded
    /\ LET r == top_k_by_popularity(cli.heap[cli.graph], k, 5) IN
       top_result' = [ asked |-> TRUE, k |-> k, min_episodes |-> 5,
                       result |-> [ i \in DOMAIN r |-> r[i].name ] ]
    /\ cli' = [ cli EXCEPT !.command = "popularity" ]
    /\ UNCHANGED << json, season_graphs >>
    /\ UNCHANGED << nodes, raised, calls, prev_call, path_result >>
    /\ UNCHANGED parseVars

\* The season numbers a user types: the seasons of the corpora and one
\* season without episodes.
CliSeasons == SeasonNumbers \cup { 3 }

CliNames == { "Chandler", "Joey", "Ross" }

CliNext ==
    \/ CliStart
    \/ \E season \in CliSeasons : CliSeason(season)
    \/ CliReset
    \/ \E start \in CliNames, end \in CliNames : CliPath(start, end)
    \/ \E k \in { 1, 5 } : CliPopularity(k)

CliSpec == SeasonInit /\ [][CliNext]_vars


(***************************************************************************)
(* save_parsed_data_as_json (JSONProcessing.py) for one script file, and   *)
(* the graphs built from what it saved.                                    *)
(***************************************************************************)
\* The keys of the interaction table in the order they were first counted.
RECURSIVE pairs_of_scenes(_)
pairs_of_scenes(scenes) ==
    IF scenes = << >> THEN << >>
    ELSE scene_pairs(Head(scenes)) \o pairs_of_scenes(Tail(scenes))

\* Lines 49-54: inter_json[f"{a}-{b}"] = w for every item of interactions.
RECURSIVE inter_json_items(_, _, _)
inter_json_items(pairs, interactions, inter_json) ==
    IF pairs = << >> THEN inter_json
    ELSE inter_json_items(Tail(pairs), interactions,
                          dict_set(inter_json,
                                   Head(pairs)[1] \o "-" \o Head(pairs)[2],
                                   interactions[Head(pairs)]))

inter_json_of(scenes, interactions) ==
    inter_json_items(pairs_of_scenes(scenes), interactions, << >>)

\* Lines 46-63 for the one file of the folder: the tables that are saved.
save_parsed_data_as_json(episode_id, scenes, interactions, word_count) ==
    [ interactions |-> << << episode_id, inter_json_of(scenes, interactions) >> >>,
      characters |-> << << episode_id, sorted(UNION Range(scenes)) >> >>,
      wordcount |-> << << episode_id, word_count >> >>,
      popularity |-> << >> ]

\* The episode ids line 40 takes from the file names.
EpisodeIds == { "S01E01", "S02E12-S02E13" }

\* The script has been parsed with parse_episode_file_with_wordcount
\* (line 43) and its tables are saved and loaded again.
SaveParsedDataAsJson(episode_id) ==
    /\ pw.pc = "done"
    /\ json = NoJson
    /\ json' = save_parsed_data_as_json(episode_id, pw.scenes, pw.interaction_counter,
                                        pw.word_count)
    /\ UNCHANGED << season_graphs, cli >>
    /\ UNCHANGED << nodes, raised, calls, prev_call, path_result, top_result >>
    /\ UNCHANGED parseVars

PersistLines ==
    { "[Scene: Central Perk]",
      "Monica: Hi! How's it going?",
      "Rahcel and Chan: No",
      "MONICA AND ROSS: Hey" } \cup HyphenLines

PersistScripts == UNION { [ 1..n -> PersistLines ] : n \in 0..MaxLines }

PersistSeasons == { { 1 }, { 2 } }

PersistInit ==
    /\ text \in PersistScripts
    /\ ParseIdle
    /\ GraphIdle
    /\ SessionIdle

\* A script is parsed, saved, and the full graph and season graphs are
\* built from the saved interactions.
PersistNext ==
    \/ ParseNext
    \/ \E episode_id \in EpisodeIds : SaveParsedDataAsJson(episode_id)
    \/ json # NoJson /\ calls = 0 /\ BuildGraphFromInteractions(json.interactions)
    \/ json # NoJson /\ \E seasons \in PersistSeasons : BuildGraphBySeasons(seasons)

PersistSpec == PersistInit /\ [][PersistNext]_vars


(***************************************************************************)
(* Properties of the parser.                                               *)
(***************************************************************************)
\* The scenes of `scenes` that hold both a and b.
ScenesWithBoth(scenes, a, b) ==
    { i \in DOMAIN scenes : a \in scenes[i] /\ b \in scenes[i] }

\* The table `counter` is the co-occurrence table of `scenes`, every key in
\* ascending order.
IsInteractionTable(counter, scenes) ==
    /\ \A key \in DOMAIN counter :
         /\ str_less(key[1], key[2])
         /\ << key[2], key[1] >> \notin DOMAIN counter
         /\ counter[key] >= 1
         /\ counter[key] = Cardinality(ScenesWithBoth(scenes, key[1], key[2]))
    /\ \A i \in DOMAIN scenes : \A a \in scenes[i], b \in scenes[i] :
         a # b => (<< a, b >> \in DOMAIN counter \/ << b, a >> \in DOMAIN counter)

\* C1: in both parse modes the returned interaction table has an entry for
\* a pair exactly when a returned scene holds both names, the count is the
\* number of such scenes, and every key is (A, B) with A < B, so never both
\* (A, B) and (B, A).
C1_InteractionTable ==
    /\ ps.pc = "done" => IsInteractionTable(ps.interaction_counter, ps.scenes)
    /\ pw.pc = "done" => IsInteractionTable(pw.interaction_counter, pw.scenes)

\* Both modes returned, and a pair was counted in two scenes.
C1_Witness ==
    /\ ps.pc = "done" /\ pw.pc = "done"
    /\ \E key \in DOMAIN ps.interaction_counter : ps.interaction_counter[key] = 2
    /\ \E key \in DOMAIN pw.interaction_counter : pw.interaction_counter[key] = 2

(***************************************************************************)
(* Properties of the graph.                                                *)
(***************************************************************************)
RECURSIVE SumValues(_)
SumValues(items) ==
    IF items = << >> THEN 0 ELSE Head(items)[2] + SumValues(Tail(items))

KeysDistinct(items) ==
    \A i \in DOMAIN items, j \in DOMAIN items : items[i][1] = items[j][1] => i = j

\* C2: after any sequence of add_edge, build_graph_from_interactions,
\* add_popularity_by_presence and add_popularity_by_wordcount calls, every
\* node's weighted_degree is the sum of the values of its neighbors mapping
\* and its degree is the number of keys of that mapping.
C2_DegreeInvariant ==
    /\ KeysDistinct(nodes)
    /\ \A k \in DOMAIN nodes :
         LET node == nodes[k][2] IN
         /\ node.name = nodes[k][1]
         /\ KeysDistinct(node.neighbors)
         /\ node.weighted_degree = SumValues(node.neighbors)
         /\ node.degree = Len(node.neighbors)

\* A node with an edge to itself, a node that only a popularity call made,
\* and a node whose edge weight was added to.
C2_Witness ==
    /\ \E k \in DOMAIN nodes : dict_has(nodes[k][2].neighbors, nodes[k][1])
    /\ \E k \in DOMAIN nodes :
         nodes[k][2].neighbors = << >> /\ nodes[k][2].pop_scores # << >>
    /\ \E k \in DOMAIN nodes : nodes[k][2].weighted_degree > 2 * nodes[k][2].degree

\* C3: for distinct a and b, when add_edge(a, b, w2) follows
\* add_edge(a, b, w1), the weight between a and b, on both endpoints, is the
\* weight before the first call plus w1 + w2 (w1 + w2 when the first call
\* made the edge), and the second call leaves the degree of a and of b as it
\* was and raises each weighted degree by w2.
C3_AddEdgeTwice ==
    [][ (prev_call'.made /\ prev_call'.run >= 2 /\ prev_call'.a # prev_call'.b) =>
          LET a == prev_call'.a
              b == prev_call'.b
              w1 == prev_call.weight
              w2 == prev_call'.weight
          IN  /\ weight_at(nodes', a, b) = prev_call.before + w1 + w2
              /\ weight_at(nodes', b, a) = prev_call.before + w1 + w2
              /\ node_of(nodes', a).degree = node_of(nodes, a).degree
              /\ node_of(nodes', b).degree = node_of(nodes, b).degree
              /\ node_of(nodes', a).weighted_degree = node_of(nodes, a).weighted_degree + w2
              /\ node_of(nodes', b).weighted_degree = node_of(nodes, b).weighted_degree + w2
      ]_vars

\* add_edge(Joey, Ross, 1) on a graph without that edge, then
\* add_edge(Joey, Ross, 2): the weight is 3 on both endpoints.
C3_Witness ==
    /\ prev_call.made /\ prev_call.run = 2
    /\ prev_call.a = "Joey" /\ prev_call.b = "Ross" /\ prev_call.weight = 2
    /\ weight_at(nodes, "Joey", "Ross") = 3
    /\ weight_at(nodes, "Ross", "Joey") = 3
    /\ node_of(nodes, "Joey").degree = 1

\* The names within k hops of s: a hop goes from a node to a key of its
\* neighbors mapping.
RECURSIVE Within(_, _, _)
Within(g, s, k) ==
    IF k = 0 THEN { s }
    ELSE LET near == Within(g, s, k - 1) IN
         near \cup { y \in dict_keys(g) : \E x \in near : has_edge(g, x, y) }

Reachable(g, s, e) == e \in Within(g, s, Len(g))

\* The least number of hops from s to e, for e reachable from s.
Hops(g, s, e) == CHOOSE k \in 0..Len(g) :
                   /\ e \in Within(g, s, k)
                   /\ \A j \in 0..(k - 1) : e \notin Within(g, s, j)

IsPath(g, path, s, e) ==
    /\ Len(path) >= 1
    /\ path[1] = s
    /\ path[Len(path)] = e
    /\ \A i \in 1..(Len(path) - 1) : has_edge(g, path[i], path[i + 1])

\* C4: shortest_path(start, end) returns None exactly when start or end is
\* no node or end cannot be reached from start; otherwise it returns a path
\* from start to end over adjacent nodes with the least number of hops,
\* whatever the weights, and [X] for start = end = X.
C4_ShortestPath ==
    path_result.asked =>
      LET s == path_result.start
          e == path_result.end
      IN  /\ ~path_result.found <=>
               (~dict_has(nodes, s) \/ ~dict_has(nodes, e) \/ ~Reachable(nodes, s, e))
          /\ path_result.found =>
               /\ IsPath(nodes, path_result.path, s, e)
               /\ Len(path_result.path) - 1 = Hops(nodes, s, e)
          /\ (s = e /\ dict_has(nodes, s)) => path_result.path = << s >>

\* A path of two hops was returned where a route of three hops exists too,
\* and the edges on the path have different weights.
C4_Witness ==
    /\ path_result.asked /\ path_result.found
    /\ path_result.start = "Joey" /\ path_result.end = "Phoebe"
    /\ Len(path_result.path) = 3
    /\ IsPath(nodes, << "Joey", "Ross", "Chandler", "Phoebe" >>, "Joey", "Phoebe")
    /\ weight_at(nodes, "Joey", "Monica") # weight_at(nodes, "Monica", "Phoebe")

\* C5: shortest_path(X, Y) is None exactly when shortest_path(Y, X) is, and
\* when both return a path the two have the same number of hops.
C5_PathSymmetry ==
    path_result.asked =>
      LET back == shortest_path(nodes, path_result.end, path_result.start) IN
      /\ path_result.found <=> back.found
      /\ path_result.found => Len(path_result.path) = Len(back.path)

RECURSIVE Reverse(_)
Reverse(seq) == IF seq = << >> THEN << >> ELSE Append(Reverse(Tail(seq)), Head(seq))

\* The two directions return different routes of the same length.
C5_Witness ==
    /\ path_result.asked /\ path_result.found
    /\ Len(path_result.path) = 3
    /\ shortest_path(nodes, path_result.end, path_result.start).path
         # Reverse(path_result.path)

(***************************************************************************)
(* Properties of the parser's line handling.                               *)
(***************************************************************************)
\* A line that is neither blank, a credit, a stage direction nor a boundary.
IsDialogueLine(raw_line) ==
    LET line == strip(raw_line) IN ~is_skipped(line) /\ ~is_scene_boundary(line)

IsBoundaryLine(raw_line) ==
    LET line == strip(raw_line) IN ~is_skipped(line) /\ is_scene_boundary(line)

BoundaryLines == { l \in LinePool : IsBoundaryLine(l) }

\* The scenes parser, and the word-count parser, has just read a line.
ScenesRead == ps'.i = ps.i + 1

WordcountRead == pw'.i = pw.i + 1

\* C6: the scene list never holds an empty scene: a scene-boundary line
\* appends the current scene only when it is non-empty, so a boundary line
\* read while the current scene is empty leaves the scene list as it was,
\* and the end of input appends the open scene only when it is non-empty.
C6_NoEmptyScene ==
    [][ /\ \A i \in DOMAIN ps'.scenes : ps'.scenes[i] # {}
        /\ \A i \in DOMAIN pw'.scenes : pw'.scenes[i] # {}
        /\ (ScenesRead /\ text[ps'.i] \in BoundaryLines) =>
             /\ ps'.current_scene = {}
             /\ ps'.scenes = IF ps.current_scene = {} THEN ps.scenes
                             ELSE Append(ps.scenes, ps.current_scene)
        /\ (WordcountRead /\ text[pw'.i] \in BoundaryLines) =>
             /\ pw'.current_scene = {}
             /\ pw'.scenes = IF pw.current_scene = {} THEN pw.scenes
                             ELSE Append(pw.scenes, pw.current_scene)
        /\ (ps.pc = "loop" /\ ps'.pc = "done") =>
             ps'.scenes = IF ps.current_scene = {} THEN ps.scenes
                          ELSE Append(ps.scenes, ps.current_scene)
        /\ (pw.pc = "loop" /\ pw'.pc = "done") =>
             pw'.scenes = IF pw.current_scene = {} THEN pw.scenes
                          ELSE Append(pw.scenes, pw.current_scene)
      ]_vars

\* A dialogue line and then two boundary lines: both modes return the one
\* scene of the dialogue line.
C6_Witness ==
    /\ Len(text) = 3
    /\ text[2] \in BoundaryLines /\ text[3] \in BoundaryLines
    /\ ps.pc = "done" /\ pw.pc = "done"
    /\ ps.scenes = << { "Monica" } >>
    /\ pw.scenes = << { "Monica" } >>

\* The prefix names no individual: it is a group-speaker or generic-role
\* term, or one of its words, apostrophes removed, is a group-speaker,
\* generic-role or group-indicator term.
NonIndividual(lower_prefix) ==
    \/ lower_prefix \in GROUP_SPEAKER_PHRASES \cup GENERIC_ROLES
    \/ \E w \in Range(split_ws(remove_apostrophes(lower_prefix))) :
         w \in GROUP_SPEAKER_PHRASES \cup GENERIC_ROLES \cup GROUP_INDICATORS

HasActionWord(lower_prefix) ==
    \E w \in Range(split_ws(remove_apostrophes(lower_prefix))) : w \in ACTION_WORDS

\* The lower-cased prefix the pattern of each mode finds on a dialogue line.
ScenesPrefix ==
    [ l \in LinePool |->
        LET m == normal_match_scenes(strip(l)) IN
        [ matched |-> IsDialogueLine(l) /\ m.matched, lower |-> lower(strip(m.prefix)) ] ]

WordcountPrefix ==
    [ l \in LinePool |->
        LET m == normal_match_wordcount(strip(l)) IN
        [ matched |-> IsDialogueLine(l) /\ m.matched, lower |-> lower(strip(m.prefix)) ] ]

NonIndividualScenesLines ==
    { l \in LinePool : ScenesPrefix[l].matched /\ NonIndividual(ScenesPrefix[l].lower) }

NonIndividualWordcountLines ==
    { l \in LinePool : WordcountPrefix[l].matched /\ NonIndividual(WordcountPrefix[l].lower) }

\* C7: a dialogue line whose speaker prefix is a group-speaker or
\* generic-role term, or holds a group-speaker, generic-role or
\* group-indicator word, adds no character to the current scene and no word
\* count; "All: Oh my God!" is such a line.
C7_NonIndividualSpeaker ==
    [][ /\ "All: Oh my God!" \in NonIndividualScenesLines \cap NonIndividualWordcountLines
        /\ (ScenesRead /\ text[ps'.i] \in NonIndividualScenesLines) =>
             ps'.current_scene = ps.current_scene
        /\ (WordcountRead /\ text[pw'.i] \in NonIndividualWordcountLines) =>
             /\ pw'.current_scene = pw.current_scene
             /\ pw'.word_count = pw.word_count
      ]_vars

\* "All: Oh my God!" was read after Monica's line, in both modes, and the
\* scene and the word counts are those of Monica's line alone.
C7_Witness ==
    /\ Len(text) >= 2
    /\ text[1] = "Monica: Hi! How's it going?"
    /\ text[2] = "All: Oh my God!"
    /\ ps.pc = "done"
    /\ pw.pc = "loop" /\ pw.i = 2
    /\ pw.current_scene = { "Monica" }
    /\ Len(pw.word_count) = 1

\* The lines whose prefix holds an action word and no group or generic word.
ActionScenesLines ==
    { l \in LinePool : /\ ScenesPrefix[l].matched
                       /\ ~NonIndividual(ScenesPrefix[l].lower)
                       /\ HasActionWord(ScenesPrefix[l].lower) }

ActionWordcountLines ==
    { l \in LinePool : /\ WordcountPrefix[l].matched
                       /\ ~NonIndividual(WordcountPrefix[l].lower)
                       /\ HasActionWord(WordcountPrefix[l].lower) }

\* The principal names that occur in the lower-cased text before the first
\* colon of the line; none when the line has no colon.
PrincipalsBeforeColon(raw_line) ==
    LET line == strip(raw_line)
        colon == find_char(line, ":", 1)
        before == lower(SubSeq(line, 1, colon - 1))
    IN  IF colon > Len(line) THEN {}
        ELSE { n \in Range(MAIN_CHARS) : contains(before, lower(n)) }

\* The names the fallback may add for a line: the one principal name that
\* occurs, nothing when none or several occur.
FallbackMayAdd ==
    [ l \in LinePool |->
        IF Cardinality(PrincipalsBeforeColon(l)) = 1 THEN PrincipalsBeforeColon(l) ELSE {} ]

PhoebeLine == "Phoebe shakes her hand and says: Phoe-Be."

\* C8: a line whose prefix holds an action word, and no group or generic
\* word, is resolved by the fallback: a name joins the current scene only
\* when exactly one principal name occurs in the lower-cased text before
\* the first colon, the name is that principal name, nothing is added when
\* none or several occur, and PhoebeLine adds exactly Phoebe.
C8_ActionWordFallback ==
    [][ /\ PhoebeLine \in ActionScenesLines \cap ActionWordcountLines
        /\ FallbackMayAdd[PhoebeLine] = { "Phoebe" }
        /\ (ScenesRead /\ text[ps'.i] \in ActionScenesLines) =>
             /\ ps.current_scene \subseteq ps'.current_scene
             /\ ps'.current_scene \subseteq ps.current_scene \cup FallbackMayAdd[text[ps'.i]]
             /\ text[ps'.i] = PhoebeLine =>
                  ps'.current_scene = ps.current_scene \cup { "Phoebe" }
        /\ (WordcountRead /\ text[pw'.i] \in ActionWordcountLines) =>
             /\ pw.current_scene \subseteq pw'.current_scene
             /\ pw'.current_scene \subseteq pw.current_scene \cup FallbackMayAdd[text[pw'.i]]
             /\ text[pw'.i] = PhoebeLine =>
                  pw'.current_scene = pw.current_scene \cup { "Phoebe" }
      ]_vars

\* PhoebeLine, then a boundary, then a line with an action word and two
\* principal names: both modes return the one scene { Phoebe }.
C8_Witness ==
    /\ Len(text) = 3
    /\ text[1] = PhoebeLine
    /\ text[2] \in BoundaryLines
    /\ text[3] \in ActionScenesLines \cap ActionWordcountLines
    /\ Cardinality(PrincipalsBeforeColon(text[3])) = 2
    /\ ps.pc = "done" /\ pw.pc = "done"
    /\ ps.scenes = << { "Phoebe" } >>
    /\ pw.scenes = << { "Phoebe" } >>

\* The lines the primary path of the word-count mode resolves.
PrimaryWordcountLines ==
    { l \in LinePool : /\ WordcountPrefix[l].matched
                       /\ ~NonIndividual(WordcountPrefix[l].lower)
                       /\ ~HasActionWord(WordcountPrefix[l].lower) }

\* The number of whitespace-separated words of s: the positions where a
\* word starts.
CountWords(s) ==
    Cardinality({ i \in 1..Len(s) :
                    /\ Char(s, i) \notin WhiteSpace
                    /\ (i = 1 \/ Char(s, i - 1) \in WhiteSpace) })

\* For a line of PrimaryWordcountLines: the speakers it resolves to and the
\* number of words of the text after its colon.
PrimaryLine ==
    [ l \in LinePool |->
        LET line == strip(l)
            m == normal_match_wordcount(line)
        IN  [ speakers |-> Range(primary_names(strip(m.prefix))),
              words |-> CountWords(SubSeq(line, find_char(line, ":", 1) + 1, Len(line))) ] ]

MonicaLine == "Monica: Hi! How's it going?"

\* Every speaker of a primary-path line joins the scene and gets the number
\* of words of the dialogue text.
PrimaryAddsWords ==
    (WordcountRead /\ text[pw'.i] \in PrimaryWordcountLines) =>
        \A n \in PrimaryLine[text[pw'.i]].speakers :
           /\ n \in pw'.current_scene
           /\ dict_get(pw'.word_count, n, 0)
                = dict_get(pw.word_count, n, 0) + PrimaryLine[text[pw'.i]].words

\* MonicaLine adds Monica to the scene and k to Monica's word count.
MonicaGets(k) ==
    (WordcountRead /\ text[pw'.i] = MonicaLine) =>
        /\ MonicaLine \in PrimaryWordcountLines
        /\ "Monica" \in pw'.current_scene
        /\ dict_get(pw'.word_count, "Monica", 0) = dict_get(pw.word_count, "Monica", 0) + k

\* C9 as the specification states it: in word-count mode a primary-path
\* line adds to each resolved speaker the number of whitespace-separated
\* words of the text after the colon, and MonicaLine raises Monica's word
\* count by 5.
C9_AsStated == [][ PrimaryAddsWords /\ MonicaGets(5) ]_vars

\* C9, amended: in word-count mode a primary-path line adds to each
\* resolved speaker the number of whitespace-separated words of the text
\* after the colon, and MonicaLine, whose text "Hi! How's it going?" has
\* four such words, raises Monica's word count by 4.
C9_WordCount == [][ PrimaryAddsWords /\ MonicaGets(4) ]_vars

\* MonicaLine was read twice and a line with two speakers once: Monica has
\* 4 + 4 + 1 words.
C9_Witness ==
    /\ pw.pc = "done"
    /\ Len(text) = 3
    /\ text[1] = MonicaLine /\ text[2] = MonicaLine
    /\ dict_get(pw.word_count, "Monica", 0) = 9
    /\ dict_get(pw.word_count, "Ross", 0) = 1

\* C10: for every script the scenes-only mode and the word-count mode
\* return the same scene list and the same interaction table.
C10_ModesAgree ==
    (ps.pc = "done" /\ pw.pc = "done") =>
        /\ ps.scenes = pw.scenes
        /\ ps.interaction_counter = pw.interaction_counter

(***************************************************************************)
(* Properties of error handling in the parser.                             *)
(***************************************************************************)
\* C11: for every script and in both parse modes, parsing runs to the end
\* of the input without raising: no line makes either parser raise.
C11_NeverRaises == ps.pc # "raised" /\ pw.pc # "raised"

(***************************************************************************)
(* Properties of the rankings.                                             *)
(***************************************************************************)
\* The mean of node n's presence-popularity list is greater than that of
\* node m's (both lists non-empty): sum(n)/len(n) > sum(m)/len(m).
MeanGreater(n, m) ==
    SumValues([ i \in DOMAIN n.pop_scores |-> << i, n.pop_scores[i] >> ]) * Len(m.pop_scores)
      > SumValues([ i \in DOMAIN m.pop_scores |-> << i, m.pop_scores[i] >> ]) * Len(n.pop_scores)

\* The node qualifies for a ranking with min_episodes.
Qualifies(n, min_episodes) ==
    Len(n.pop_scores) >= min_episodes /\ Len(n.pop_scores) >= 1

\* C12: top_k_by_popularity(k, min_episodes) returns only nodes with at
\* least min_episodes and at least one presence-popularity score, ordered
\* by the mean of the scores from highest to lowest, at most k of them; a
\* node with fewer scores is never returned whatever its mean, and no
\* qualifying node left out has a mean greater than a returned node's.
C12_TopKByPopularity ==
    top_result.asked =>
      LET r == top_result.result
          node(name) == node_of(nodes, name)
      IN  /\ Len(r) <= top_result.k
          /\ \A i \in DOMAIN r, j \in DOMAIN r : r[i] = r[j] => i = j
          /\ \A i \in DOMAIN r :
               dict_has(nodes, r[i]) /\ Qualifies(node(r[i]), top_result.min_episodes)
          /\ \A i \in DOMAIN r, j \in DOMAIN r :
               i < j => ~MeanGreater(node(r[j]), node(r[i]))
          /\ \A name \in dict_keys(nodes) \ Range(r) :
               Qualifies(node(name), top_result.min_episodes) =>
                 \A i \in DOMAIN r : ~MeanGreater(node(name), node(r[i]))

\* Two nodes were returned for min_episodes = 2, a qualifying node was left
\* out, and a node with one score has a mean above every returned node's.
C12_Witness ==
    /\ top_result.asked
    /\ top_result.k = 2 /\ top_result.min_episodes = 2
    /\ Len(top_result.result) = 2
    /\ \E name \in dict_keys(nodes) \ Range(top_result.result) :
         Qualifies(node_of(nodes, name), 2)
    /\ \E name \in dict_keys(nodes) :
         /\ Len(node_of(nodes, name).pop_scores) = 1
         /\ \A i \in DOMAIN top_result.result :
              MeanGreater(node_of(nodes, name), node_of(nodes, top_result.result[i]))


(***************************************************************************)
(* Properties of the season graphs.                                        *)
(***************************************************************************)
\* The season of every episode identifier of the corpora: the number
\* behind the first S.
IdSeason ==
    [ id \in { "S01E01", "S01E24-S02E01" } |-> 1 ]
    @@ [ id \in { "S02E01", "S02E02", "S02E03", "S02E12-S02E13" } |-> 2 ]
    @@ [ id \in { "S10E01", "S10E17-S10E18" } |-> 10 ]

CorpusNames == { "Chandler", "Gunther", "Joey", "Monica", "Phoebe", "Ross" }

\* The count the episode's table (a list of (key, count)) holds for the
\* pair a, b, under either order of the names in the key.
PairCount(table, a, b) ==
    SumValues(SelectSeq(table, LAMBDA item :
                item[1] \in { a \o "-" \o b, b \o "-" \o a }))

\* The sum of the pair's counts over the episodes of the given seasons.
RECURSIVE SeasonsCount(_, _, _, _)
SeasonsCount(episode_interactions, seasons, a, b) ==
    IF episode_interactions = << >> THEN 0
    ELSE (IF IdSeason[Head(episode_interactions)[1]] \in seasons
            THEN PairCount(Head(episode_interactions)[2], a, b) ELSE 0)
         + SeasonsCount(Tail(episode_interactions), seasons, a, b)

\* The names that occur in a pair with a positive count.
SeasonsNames(episode_interactions, seasons) ==
    { a \in CorpusNames :
        \E b \in CorpusNames : SeasonsCount(episode_interactions, seasons, a, b) > 0 }

\* C13: the graph build_graph_by_seasons returns for `seasons` holds, for
\* every pair, the sum of the pair's counts over exactly the episodes whose
\* season (the first season number of the identifier) is in `seasons`, on
\* both endpoints, and its nodes are the names of those episodes' pairs:
\* nothing comes from an episode of another season.
C13_SeasonGraph ==
    \A seasons \in DOMAIN season_graphs :
       LET g == season_graphs[seasons] IN
       /\ ~g.raised
       /\ dict_keys(g.nodes) = SeasonsNames(json.interactions, seasons)
       /\ \A a \in CorpusNames, b \in CorpusNames :
            a # b => weight_at(g.nodes, a, b) = SeasonsCount(json.interactions, seasons, a, b)

\* The graph of season 1 of Corpus2: the double episode S01E24-S02E01
\* counts for season 1 and the three Joey-Ross scenes of S02E02 do not.
C13_Witness ==
    /\ json = Corpus2
    /\ { 1 } \in DOMAIN season_graphs
    /\ weight_at(season_graphs[{ 1 }].nodes, "Joey", "Ross") = 1
    /\ { 2 } \in DOMAIN season_graphs
    /\ weight_at(season_graphs[{ 2 }].nodes, "Ross", "Joey") = 3
    /\ dict_keys(season_graphs[{ 2 }].nodes) = { "Joey", "Ross" }

\* The sum of the weights of the pair a, b over the single-season graphs.
RECURSIVE SingleSeasonsWeight(_, _, _)
SingleSeasonsWeight(seasons, a, b) ==
    IF seasons = {} THEN 0
    ELSE LET s == CHOOSE s \in seasons : TRUE IN
         weight_at(season_graphs[{ s }].nodes, a, b)
           + SingleSeasonsWeight(seasons \ { s }, a, b)

AllBuilt ==
    /\ calls = 1
    /\ \A s \in SeasonNumbers : { s } \in DOMAIN season_graphs

\* C14: for every pair the edge weights of the graphs built by
\* build_graph_by_seasons for each single season add up to the edge weight
\* of the graph build_graph_from_interactions builds from the same tables,
\* and the nodes of the season graphs together are the nodes of that graph.
C14_SeasonsAddUp ==
    AllBuilt =>
      /\ ~raised
      /\ dict_keys(nodes) =
           UNION { dict_keys(season_graphs[{ s }].nodes) : s \in SeasonNumbers }
      /\ \A a \in CorpusNames, b \in CorpusNames :
           weight_at(nodes, a, b) = SingleSeasonsWeight(SeasonNumbers, a, b)

\* Corpus1: the full graph and the three season graphs are built; Joey-Ross
\* has weight 3 in the full graph, 1 in season 1 and 2 in season 2.
C14_Witness ==
    /\ AllBuilt
    /\ json = Corpus1
    /\ weight_at(nodes, "Joey", "Ross") = 3
    /\ weight_at(season_graphs[{ 1 }].nodes, "Joey", "Ross") = 1
    /\ weight_at(season_graphs[{ 2 }].nodes, "Joey", "Ross") = 2
    /\ dict_has(season_graphs[{ 10 }].nodes, "Chandler")


(***************************************************************************)
(* Properties of the popularity calls.                                     *)
(***************************************************************************)
PopularityNames == { "Gunther", "Joey", "Monica", "Ross" }

\* The item at index i of the episode's word counts is among the top_k by
\* count: fewer than top_k items come before it, an item coming before it
\* when its count is greater, or equal and its index smaller.
InTopK(wc_dict, i, top_k) ==
    Cardinality({ j \in DOMAIN wc_dict :
                    \/ wc_dict[j][2] > wc_dict[i][2]
                    \/ wc_dict[j][2] = wc_dict[i][2] /\ j < i }) < top_k

TopNames(wc_dict, top_k) ==
    { wc_dict[i][1] : i \in { j \in DOMAIN wc_dict : InTopK(wc_dict, j, top_k) } }

\* The scores, in the order of the episodes, of the episodes that have a
\* score and whose set of names (members) holds the name.
RECURSIVE ScoresFor(_, _, _, _)
ScoresFor(episodes, popularity, members(_), name) ==
    IF episodes = << >> THEN << >>
    ELSE (IF /\ \E k \in DOMAIN popularity : popularity[k][1] = Head(episodes)[1]
             /\ name \in members(Head(episodes)[2])
            THEN << (CHOOSE item \in Range(popularity) : item[1] = Head(episodes)[1])[2] >>
            ELSE << >>)
         \o ScoresFor(Tail(episodes), popularity, members, name)

WordcountCalled ==
    calls' = calls + 1 /\ prev_call'.op = "add_popularity_by_wordcount"

\* C15: add_popularity_by_wordcount appends, for each episode with a
\* popularity score, that score once to the effective-popularity list of
\* each of the top_k characters by the episode's word count, descending,
\* equal counts in insertion order, and to no other character; an episode
\* without a score changes nothing.
C15_PopularityByWordcount ==
    [][ WordcountCalled =>
          LET top(wc_dict) == TopNames(wc_dict, prev_call'.top_k) IN
          \A name \in PopularityNames :
             /\ node_of(nodes', name).effective_pop_scores
                  = node_of(nodes, name).effective_pop_scores
                      \o ScoresFor(prev_call'.episode_wordcount,
                                   prev_call'.episode_popularity, top, name)
             /\ node_of(nodes', name).pop_scores = node_of(nodes, name).pop_scores
      ]_vars

\* The call with top_k = 2 on an episode where Ross has 9 words and Joey
\* and Monica, in this order, 5 each, and on an episode without a score:
\* Ross and Joey got the score, Monica and the other episode's Ross did not.
C15_Witness ==
    /\ prev_call.op = "add_popularity_by_wordcount"
    /\ prev_call.top_k = 2
    /\ calls = 1
    /\ node_of(nodes, "Ross").effective_pop_scores = << 80 >>
    /\ node_of(nodes, "Joey").effective_pop_scores = << 80 >>
    /\ ~dict_has(nodes, "Monica")

PresenceCalled ==
    calls' = calls + 1 /\ prev_call'.op = "add_popularity_by_presence"

\* C16: add_popularity_by_presence appends, for each episode with a
\* popularity score, that score once to the presence-popularity list of
\* every character listed for the episode, creating the node if absent, and
\* to no other node; an episode without a score is skipped without error
\* and changes no node; no adjacency, degree or weighted degree changes.
C16_PopularityByPresence ==
    [][ PresenceCalled =>
          LET listed(chars) == Range(chars)
              scored == { name \in PopularityNames :
                            ScoresFor(prev_call'.episode_characters,
                                      prev_call'.episode_popularity, listed, name) # << >> }
          IN  /\ raised' = raised
              /\ dict_keys(nodes') = dict_keys(nodes) \cup scored
              /\ \A name \in PopularityNames :
                   /\ node_of(nodes', name).pop_scores
                        = node_of(nodes, name).pop_scores
                            \o ScoresFor(prev_call'.episode_characters,
                                         prev_call'.episode_popularity, listed, name)
                   /\ node_of(nodes', name).effective_pop_scores
                        = node_of(nodes, name).effective_pop_scores
                   /\ node_of(nodes', name).neighbors = node_of(nodes, name).neighbors
                   /\ node_of(nodes', name).degree = node_of(nodes, name).degree
                   /\ node_of(nodes', name).weighted_degree
                        = node_of(nodes, name).weighted_degree
      ]_vars

\* After add_edge(Joey, Ross, 1), the call with Joey and Ross in a scored
\* episode and Monica in an episode without a score: Joey and Ross have the
\* score and their edge, Monica is no node.
C16_Witness ==
    /\ prev_call.op = "add_popularity_by_presence"
    /\ calls = 2
    /\ node_of(nodes, "Joey").pop_scores = << 80 >>
    /\ node_of(nodes, "Ross").pop_scores = << 80 >>
    /\ weight_at(nodes, "Joey", "Ross") = 1
    /\ ~dict_has(nodes, "Monica")


(***************************************************************************)
(* Properties of the fallback path.                                        *)
(***************************************************************************)
\* The text of the line after its first colon, stripped.
TextAfterColon(raw_line) ==
    LET line == strip(raw_line) IN
    strip(SubSeq(line, find_char(line, ":", 1) + 1, Len(line)))

\* The word-count parser has just read a line that the fallback path
\* resolved to a character, and has not raised.
WordcountFallbackResolved ==
    /\ WordcountRead
    /\ pw'.pc # "raised"
    /\ WordcountEffect[text[pw'.i]].path = "fallback"
    /\ WordcountEffect[text[pw'.i]].names # << >>

\* C17: in word-count mode, when the fallback path resolves a line, the
\* character's word count grows by the number of characters of that same
\* line's text after its colon, never by a value taken from an earlier line.
C17_FallbackCountsOwnLine ==
    [][ WordcountFallbackResolved =>
          LET name == WordcountEffect[text[pw'.i]].names[1] IN
          dict_get(pw'.word_count, name, 0)
            = dict_get(pw.word_count, name, 0) + Len(TextAfterColon(text[pw'.i]))
      ]_vars


\* The lower-cased, stripped text before the first colon of the line.
LowerBeforeColon(raw_line) ==
    LET line == strip(raw_line) IN
    lower(strip(SubSeq(line, 1, find_char(line, ":", 1) - 1)))

HasColon(raw_line) == find_char(raw_line, ":", 1) <= Len(raw_line)

\* The dialogue lines with a colon that the fallback path handles in each
\* mode (the pattern does not match, or the prefix holds an action word)
\* and whose text before the first colon names no individual.
NonIndividualFallbackScenesLines ==
    { l \in LinePool : /\ IsDialogueLine(l) /\ HasColon(l)
                       /\ (~ScenesPrefix[l].matched \/ HasActionWord(ScenesPrefix[l].lower))
                       /\ NonIndividual(LowerBeforeColon(l)) }

NonIndividualFallbackWordcountLines ==
    { l \in LinePool : /\ IsDialogueLine(l) /\ HasColon(l)
                       /\ (~WordcountPrefix[l].matched
                             \/ HasActionWord(WordcountPrefix[l].lower))
                       /\ NonIndividual(LowerBeforeColon(l)) }

\* C18: the fallback path applies the rejection rule of the primary path: a
\* line whose text before the first colon is, or after apostrophe removal
\* holds a word that is, a group-speaker, generic-role or group-indicator
\* term adds no character to the scene, even with exactly one principal
\* name in it.
C18_FallbackRejects ==
    [][ /\ (ScenesRead /\ text[ps'.i] \in NonIndividualFallbackScenesLines) =>
             ps'.current_scene = ps.current_scene
        /\ (WordcountRead /\ text[pw'.i] \in NonIndividualFallbackWordcountLines) =>
             pw'.current_scene = pw.current_scene
      ]_vars


(***************************************************************************)
(* Properties of the alias table.                                          *)
(***************************************************************************)
\* Every name the two parsers hold in a scene.
RegisteredNames ==
    ps.current_scene \cup UNION Range(ps.scenes)
      \cup pw.current_scene \cup UNION Range(pw.scenes)

\* The keys of the alias table, lower-cased.
AliasKeys == { lower(NAME_MAP[k][1]) : k \in DOMAIN NAME_MAP }

\* C19: a name token that equals a key of the alias table, ignoring letter
\* case, is registered under the mapped full name and never under the
\* abbreviation, and every name is registered in title case.
C19_AliasesResolved ==
    \A name \in RegisteredNames :
       /\ lower(name) \notin AliasKeys
       /\ name = title(name)


(***************************************************************************)
(* Properties of the session.                                              *)
(***************************************************************************)
\* C20: across any sequence of season-filter, reset and query commands the
\* full-corpus graph built at start-up is never modified: a season filter
\* makes the current graph another object than the full graph, and after a
\* reset the current graph is the full-corpus graph again and the season
\* label is "All 10 seasons".
C20_FullGraphKept ==
    [][ cli.loaded =>
          /\ cli'.loaded
          /\ cli'.heap[cli'.full_graph] = cli.heap[cli.full_graph]
          /\ cli'.command = "season" => cli'.graph # cli'.full_graph
          /\ cli'.command = "reset" =>
               /\ cli'.graph = cli'.full_graph
               /\ cli'.current_seasons = AllSeasons
      ]_vars

\* Corpus1 after "season 2", a path query and "season all": the current
\* graph is the full graph, which still holds the season 10 edge.
C20_Witness ==
    /\ cli.loaded
    /\ json = Corpus1
    /\ cli.command = "reset"
    /\ cli.graph = cli.full_graph
    /\ cli.current_seasons = AllSeasons
    /\ weight_at(cli.heap[cli.full_graph], "Chandler", "Joey") = 1
    /\ weight_at(cli.heap[cli.full_graph], "Joey", "Ross") = 3


(***************************************************************************)
(* Properties of the adjacency.                                            *)
(***************************************************************************)
\* The (neighbor, weight) items the node named a holds, none when the graph
\* has no such node.
NeighborItems(g, a) ==
    { node_of(g, a).neighbors[i] : i \in DOMAIN node_of(g, a).neighbors }

NodeNames(g) == { g[k][1] : k \in DOMAIN g }

\* C21: after any sequence of add_edge, build_graph_from_interactions,
\* add_popularity_by_presence and add_popularity_by_wordcount calls (a
\* build_graph_from_interactions call that raised included), every neighbor
\* key of every node is itself a node of the graph, and b is a key of a's
\* neighbors exactly when a is a key of b's neighbors, with the same weight
\* on both.
C21_MirroredAdjacency ==
    \A a \in NodeNames(nodes) :
        \A item \in NeighborItems(nodes, a) :
            /\ item[1] \in NodeNames(nodes)
            /\ << a, item[2] >> \in NeighborItems(nodes, item[1])

\* Joey-Ross added to twice with different weights, and a build that raised
\* at the key "Jean-Luc-Ross" after it had added Joey-Monica.
C21_Witness ==
    /\ raised
    /\ << "Ross", 3 >> \in NeighborItems(nodes, "Joey")
    /\ << "Joey", 3 >> \in NeighborItems(nodes, "Ross")
    /\ << "Monica", 1 >> \in NeighborItems(nodes, "Joey")
    /\ << "Joey", 1 >> \in NeighborItems(nodes, "Monica")


(***************************************************************************)
(* Properties of the lines before the first scene boundary.                *)
(***************************************************************************)
\* The position of the first scene-boundary line of the script, one past
\* its end when it has none.
FirstBoundary ==
    IF \E i \in DOMAIN text : text[i] \in BoundaryLines
      THEN CHOOSE i \in DOMAIN text :
             /\ text[i] \in BoundaryLines
             /\ \A j \in 1..(i - 1) : text[j] \notin BoundaryLines
      ELSE Len(text) + 1

\* The names the lines 1..n resolve to, when none of them is a boundary.
NamesUpTo(n) ==
    UNION { Range(ScenesEffect[text[i]].names) : i \in 1..n }

InitialNames == NamesUpTo(FirstBoundary - 1)

\* C22: in parse_episode_file the names of the dialogue lines before the
\* first scene-boundary line accumulate in the current scene; once the first
\* boundary has been read, or the input has ended without one, they are the
\* first scene of the scene list (no scene when there are none), and on
\* return every pair of them is a key of the interaction table, counted
\* once for every returned scene that holds both.
C22_InitialScene ==
    /\ (ps.pc = "loop" /\ ps.i < FirstBoundary) =>
         /\ ps.scenes = << >>
         /\ ps.current_scene = NamesUpTo(ps.i)
    /\ (ps.pc = "done" \/ ps.i >= FirstBoundary) =>
         IF InitialNames = {}
           THEN \A k \in DOMAIN ps.scenes : k <= Len(text) - FirstBoundary
           ELSE /\ ps.scenes # << >>
                /\ ps.scenes[1] = InitialNames
    /\ ps.pc = "done" =>
         \A a \in InitialNames, b \in InitialNames :
            str_less(a, b) =>
              /\ << a, b >> \in DOMAIN ps.interaction_counter
              /\ ps.interaction_counter[<< a, b >>] =
                   Cardinality(ScenesWithBoth(ps.scenes, a, b))

\* Two dialogue lines and then the first boundary: the returned scene list
\* is the one scene of Monica and Ross, and the pair is counted once.
C22_Witness ==
    /\ Len(text) = 3
    /\ FirstBoundary = 3
    /\ ps.pc = "done"
    /\ ps.scenes = << { "Monica", "Ross" } >>
    /\ ps.interaction_counter = (<< "Monica", "Ross" >> :> 1)

\* A script without a boundary line: the scene of its lines is appended at
\* the end of the input.
C22_NoBoundaryReached ==
    /\ Len(text) = 2
    /\ FirstBoundary = 3
    /\ ps.pc = "done"
    /\ ps.scenes = << { "Monica", "Ross" } >>


(***************************************************************************)
(* Properties of the saved interaction keys.                               *)
(***************************************************************************)
HasHyphen(s) == \E i \in 1..Len(s) : SubSeq(s, i, i) = "-"

\* Every name the parse state holds: in a closed scene, in the open scene,
\* or in a key of the interaction table.
ParsedNames(scenes, current_scene, counter) ==
    UNION Range(scenes) \cup current_scene
      \cup { key[1] : key \in DOMAIN counter } \cup { key[2] : key \in DOMAIN counter }

ProperNames(scenes, current_scene, counter) ==
    /\ \A name \in ParsedNames(scenes, current_scene, counter) :
         name # "" /\ ~HasHyphen(name)
    /\ \A key \in DOMAIN counter : key[1] # key[2]

NoSelfLoop(g) == \A k \in DOMAIN g : ~dict_has(g[k][2].neighbors, g[k][1])

\* C23: in both parse modes no name a scene or the interaction table holds
\* is empty or contains '-', and the two names of every interaction key
\* differ; every saved key "A-B" belongs to one pair (A, B) of the table,
\* carries its count, and splits on '-' into exactly << A, B >>; and
\* build_graph_from_interactions and build_graph_by_seasons on the saved
\* interactions do not raise, make no node its own neighbor, and the full
\* graph holds every pair with its count.
C23_KeysSplit ==
    /\ ProperNames(ps.scenes, ps.current_scene, ps.interaction_counter)
    /\ ProperNames(pw.scenes, pw.current_scene, pw.interaction_counter)
    /\ json # NoJson =>
         LET items == json.interactions[1][2] IN
         /\ Len(items) = Cardinality(DOMAIN pw.interaction_counter)
         /\ \A k \in DOMAIN items :
              \E key \in DOMAIN pw.interaction_counter :
                 /\ items[k][1] = key[1] \o "-" \o key[2]
                 /\ split_on(items[k][1], "-") = << key[1], key[2] >>
                 /\ items[k][2] = pw.interaction_counter[key]
    /\ ~raised
    /\ NoSelfLoop(nodes)
    /\ calls = 1 =>
         \A key \in DOMAIN pw.interaction_counter :
            /\ weight_at(nodes, key[1], key[2]) = pw.interaction_counter[key]
            /\ weight_at(nodes, key[2], key[1]) = pw.interaction_counter[key]
    /\ \A seasons \in DOMAIN season_graphs :
         /\ ~season_graphs[seasons].raised
         /\ NoSelfLoop(season_graphs[seasons].nodes)

\* A script with a line whose prefix holds a '-' was parsed and saved, the
\* full graph built from it holds the edge Monica-Ross, and a season graph
\* with edges was built.
C23_Witness ==
    /\ \E i \in DOMAIN text : text[i] \in HyphenLines
    /\ json # NoJson
    /\ calls = 1
    /\ weight_at(nodes, "Monica", "Ross") >= 1
    /\ \E seasons \in DOMAIN season_graphs : season_graphs[seasons].nodes # << >>


=============================================================================
